---- MODULE Spec2Model ----
(***************************************************************************)
(* Model of the balancing rover's control core.                            *)
(*                                                                         *)
(*  - Balance (balance/balancing.py): the control loop run_loop with its   *)
(*    state machine, the bump compensator and the exception handler, and   *)
(*    the command handlers start / stop (balance/balance_main.py).         *)
(*  - PID (balance/pid.py): process().                                     *)
(*                                                                         *)
(* Units.  Angles are whole degrees.  Time is counted in loop periods      *)
(* (ticks); bump_delay and bump_len are given in ticks.  Controller        *)
(* outputs are in thousandths.                                             *)
(*                                                                         *)
(* Clock.  time.time() has no meaningful origin, and the loop only ever    *)
(* compares a stored timestamp with the latest clock reading.  After each  *)
(* sample the model moves the origin so that the reading just taken is     *)
(* Origin: a stored timestamp t stands for "Origin - t ticks ago".         *)
(*                                                                         *)
(* The loop thread is modelled statement by statement from line 207 on,    *)
(* because start() and stop() run on the command thread and write          *)
(* self.state between the loop's reads and writes of it.  Lines 110-205    *)
(* touch only data owned by the loop and are one step.                     *)
(*                                                                         *)
(* Line 137 calls pid_inner.process(pid_time, 0.0, x) with three           *)
(* arguments.  PID.process of pid.py takes (set_point, current): with the  *)
(* PID that balance_main.py constructs the call raises TypeError on every  *)
(* sample.  Balance takes pid_inner as a constructor argument, so the      *)
(* model has both cases: pid_accepts = FALSE is the PID of pid.py,         *)
(* pid_accepts = TRUE a controller whose process takes the three           *)
(* arguments and returns some output.                                      *)
(***************************************************************************)
EXTENDS Integers, Sequences, FiniteSets, TLC

\* ------------------------------------------------------------------ bounds

\* Orientation is kept within -CyMax .. CyMax degrees.
CyMax == 7
\* The clock value every sample's reading is re-based to.
Origin == 100
\* A sample arrives 1 .. MaxDt ticks after the previous one.
MaxDt == 2
\* Largest gyro increment (degrees per sample) fed to the filter.
MaxGyroInc == 2
\* Constructor arguments of Balance, in model units: the tilt cutoff, and
\* the bump threshold (degrees per sample), delay and length (ticks).
max_deg == 5
BumpThreshold == 1
BumpDelay == 2
BumpLen == 3

\* process() calls made on the PID, the clock at its construction, the
\* largest clock advance between two calls.
MaxCalls == 3
ClockStart == 5
PidMaxDt == 1

\* ------------------------------------------------------- program constants

STATE_STOPPED == 0
STATE_WAITING_FOR_READY == 1
STATE_BALANCING == 2

\* None, for the optional timestamps bump_found / bump_in_place and last_cy.
None == -1
NoCy == -1000

\* Entry band of line 207: -4 < cy < 4.
ReadyBand == 4

\* Constructor arguments bump_step = 0.2, bump_gain = 1.0 (thousandths).
BumpStep == 200
BumpGain == 1000

\* combine_factor_gyro values (percent) the filter is exercised with.
CombineFactors == {0, 100}

\* Outputs (thousandths) a three-argument controller may return.
PidOutputs == {0, 500}

VARIABLES
  \* ---- Balance fields
  state,            \* self.state
  cy,               \* self.cy
  bump_found,       \* self.bump_found  (None or a timestamp)
  bump_in_place,    \* self.bump_in_place
  combine_factor_gyro, \* self.combine_factor_gyro, percent
  pid_accepts,      \* whether pid_inner.process takes the three arguments of line 137
  bump_threshold,   \* self.bump_threshold
  bump_delay,       \* self.bump_delay
  bump_len,         \* self.bump_len
  \* ---- run_loop locals
  pc,               \* position of the loop thread
  last_cy,
  bump,
  control,
  last_state,
  had_exception,
  \* ---- what the loop did (observations)
  sampled,          \* the latest iteration got its sensor readings
  iter_logs,        \* calls of self._logger.log in the latest iteration
  cmds,             \* motor commands issued in the latest iteration
  err_printed,      \* the latest loop step printed "ERROR: ..."
  episode,          \* "none": no error printed yet; "printed": an error was printed
                    \* and no iteration has reached line 227 since; "ok": one has
  first_active,     \* tick at which the running bump first became active
  run_side,         \* while a bump is armed or active: 1 / -1 when every sample
                    \* since it was armed moved away from zero on that side,
                    \* 2 when on both sides in turn; 0 otherwise
  \* ---- command side
  svc,              \* BalancingService.init: "init" before line 72, then "ready"
  last_cmd,         \* the latest of start / stop received
  \* ---- a PID object on its own (pid.py)
  pid,              \* the fields of the PID
  pid_clock,        \* time.time()
  pid_ret,          \* what the latest process() call returned
  pid_calls,        \* process() calls so far
  \* ---- more observations of the bump compensator
  bump_dropped,     \* the latest sample cleared an armed or active bump
  \* ---- the sensor drivers (gyro.py, accel.py); one axis stands for x, y, z
  gyro_data_buffer,  \* gyro.data_buffer: sequence of [time, d]
  accel_data_buffer, \* accel.data_buffer: sequence of [time, raw]
  gyro_cy,           \* gyro.cx / cy / cz: the calibration offset
  gyro_py,           \* gyro.px / py / pz: the filtered position
  accel_y_offset,    \* accel.x_offset / y_offset / z_offset, thousandths of g
  gyro_filter,       \* gyro.filter, percent
  \* ---- what the drivers and the calibrate command did (observations)
  drv_last,          \* the latest driver operation
  calib,             \* the latest calibrate command: payload, whether it raised
  calibs,            \* calibrate commands so far
  cy_writer,         \* the thread that wrote self.cy last
  \* ---- more fields set over the configuration topics
  bump_gain,         \* self.bump_gain, thousandths
  bump_step,         \* self.bump_step, thousandths
  accel_filter,      \* accel.filter, percent
  pid_outer,         \* the fields of pid_outer (pid is pid_inner in the service)
  \* ---- what the configuration handlers did (observations)
  published,         \* the latest message published: <<topic, payload>>
  handler_raised,    \* its handler let an exception escape
  publishes,         \* messages published so far
  \* ---- calls of single functions (observations)
  gains_call,        \* the latest PID.update_gains_from_map: its map, whether it raised
  angle_call,        \* the latest PID.angle_difference: arguments and result
  motor_call,        \* the latest sanitise_speed: driver, argument and result
  filter_call,       \* the latest run of line 130: cy before, inputs, weight, cy after
  bump_call,         \* the latest run of lines 140-167 on their own: output before and after
  gyro_read,         \* the latest gyro.read_deltas on its own: the values the loop logs of it
  \* ---- the telemetry logger of the engine
  logger,            \* self._logger: the fields added, whether init() was called
  logged,            \* the arguments of the latest self._logger.log call
  \* ---- the telemetry viewer (balancing_telemetry.py)
  collect_data,      \* self._collect_data
  telemetry_client,  \* self.telemetry_client: id 0 is None; host; running (start / stop)
  clients_made,      \* CachingSocketTelemetryClient objects constructed so far
  replaced,          \* the clients that _setup_telemetry_client replaced, as they were left
  rx_pc,             \* the receive thread: "if" at line 490, "call" at line 491
  rx_had_exception,  \* had_exception of _receive_telemetry
  rx_printed,        \* the latest pass of the receive loop printed "ERROR: ..."
  rx_failed,         \* the latest pass of the receive loop caught an exception
  collecting,        \* the latest of connect / stop_collecting / continue_collecting done
  clock,             \* time.time()
  pending,           \* records sent on the connection, not yet read
  cache,             \* the records the client holds, as their timestamps
  ingested,          \* the latest step of the receive thread put records in the cache
  fetches,           \* network fetches retrieve has issued
  resident_to,       \* the end of the range retrieve has already fetched
  query,             \* the latest retrieve, fetch or trim: arguments and outcome
  csv,               \* logs.csv as the latest export left it, and its callback
  \* ---- the telemetry server of the engine
  init_pc,           \* Balance.init: the call it is at
  accepting,         \* the accept thread of the server runs
  connections,       \* per connection accepted: whether open, the messages sent on it
  produced           \* the timestamps of the records logged, in order

vars == <<state, cy, bump_found, bump_in_place, combine_factor_gyro, pid_accepts,
          bump_threshold, bump_delay, bump_len,
          pc, last_cy, bump, control, last_state, had_exception,
          sampled, iter_logs, cmds, err_printed, episode, first_active, run_side,
          svc, last_cmd, pid, pid_clock, pid_ret, pid_calls, bump_dropped,
          gyro_data_buffer, accel_data_buffer, gyro_cy, gyro_py, accel_y_offset,
          gyro_filter, drv_last, calib, calibs, cy_writer,
          bump_gain, bump_step, accel_filter, pid_outer,
          published, handler_raised, publishes,
          gains_call, angle_call, motor_call, filter_call, bump_call, gyro_read,
          logger, logged,
          collect_data, telemetry_client, clients_made, replaced, rx_pc, rx_had_exception,
          rx_printed, rx_failed, collecting, clock, pending, cache, ingested,
          fetches, resident_to, query, csv,
          init_pc, accepting, connections, produced>>

\* The server's set-up and traffic.
wireVars == <<init_pc, accepting, connections, produced>>

\* The viewer's fields, its receive thread and its telemetry client.
clientVars == <<collect_data, telemetry_client, clients_made, replaced, rx_pc,
                rx_had_exception, rx_printed, rx_failed, collecting, clock,
                pending, cache, ingested, fetches, resident_to, query, csv>>

\* What is observed of the calls of single functions.
callVars == <<gains_call, angle_call, motor_call, filter_call, bump_call, gyro_read, logger, logged>>

\* More of what the configuration topics set, and what is observed of them.
settingVars == <<bump_gain, bump_step, accel_filter, pid_outer,
                 published, handler_raised, publishes>>

\* The drivers' fields and what is observed of them.
driverVars == <<gyro_data_buffer, accel_data_buffer, gyro_cy, gyro_py,
                accel_y_offset, gyro_filter, drv_last, calib, calibs, cy_writer>>

pidVars == <<pid, pid_clock, pid_ret, pid_calls>>
\* What no step of the engine changes.
config == <<combine_factor_gyro, pid_accepts, bump_threshold, bump_delay, bump_len,
            pidVars, driverVars, settingVars, callVars, clientVars, wireVars>>
engineVars == <<state, cy, bump_found, bump_in_place, combine_factor_gyro,
                pid_accepts, bump_threshold, bump_delay, bump_len,
                pc, last_cy, bump, control, last_state, had_exception,
                sampled, iter_logs, cmds, err_printed, episode, first_active,
                run_side, svc, last_cmd, bump_dropped, driverVars, settingVars>>
loopLocals == <<last_cy, bump, control>>
bumpVars == <<bump_found, bump_in_place, first_active, run_side, bump_dropped>>
cmdVars == <<svc, last_cmd>>

\* ------------------------------------------------------------ pure helpers

Abs(x) == IF x < 0 THEN -x ELSE x

\* round(1000 * sin(d degrees)) for 0 <= d <= 24
SinTable ==
  <<17, 35, 52, 70, 87, 105, 122, 139, 156, 174, 191, 208,
    225, 242, 259, 276, 292, 309, 326, 342, 358, 375, 391, 407>>

\* math.sin(deg * math.pi / 180), thousandths
Sin(deg) ==
  IF deg = 0 THEN 0
  ELSE IF deg > 0 THEN SinTable[deg] ELSE -SinTable[-deg]

\* The filter with the two weights exchanged.
Combine_WeightsSwapped(c, g, a, w) == ((c + g) * (100 - w) + a * w) \div 100

\* Lines 129-131: the complementary filter for one axis; w is
\* combine_factor_gyro in percent, g the gyro increment gyro_y / freq,
\* a the accelerometer angle.
Combine(c, g, a, w) == ((c + g) * w + a * (100 - w)) \div 100

\* Line 147: is it going away from the set point (zero)?
GoingAway(c, angle_change) ==
  (c < 0 /\ angle_change < 0) \/ (c > 0 /\ angle_change > 0)

\* Line 148: the guard under which a bump candidate may be armed.
MayArm(found, in_place) == found = None

\* Line 162: bump = self.bump_step + self.cy * self.bump_gain / 45.0
BumpValue(c) == bump_step + (c * bump_gain) \div 45

\* BumpProcess whose else branch (lines 169-172) leaves the active marker.
BumpProcess_KeepsActive(c, lcy, t, b) ==
  IF lcy = NoCy THEN b
  ELSE
    LET angle_change == c - lcy IN
    IF GoingAway(c, angle_change) THEN
      LET f1 == IF MayArm(b.found, b.in_place) /\ Abs(angle_change) >= bump_threshold
                THEN t ELSE b.found
          expire == f1 # None /\ f1 + bump_delay <= t
          f2 == IF expire THEN None ELSE f1
          p2 == IF expire THEN t ELSE b.in_place
      IN
      IF p2 # None THEN
        IF p2 + bump_len <= t
        THEN [found |-> f2, in_place |-> None, bump |-> 0, output |-> b.output]
        ELSE LET v == BumpValue(c) IN
             [found |-> f2, in_place |-> p2, bump |-> v,
              output |-> IF angle_change > 0 THEN b.output - v ELSE b.output + v]
      ELSE [found |-> f2, in_place |-> p2, bump |-> b.bump, output |-> b.output]
    ELSE [found |-> None, in_place |-> b.in_place, bump |-> 0, output |-> b.output]

\* Lines 140-172: bump processing for one sample.  b is the record of
\* bump_found, bump_in_place, bump and output before the sample; the result
\* is the record after it.
BumpProcess(c, lcy, t, b) ==
  IF lcy = NoCy THEN b
  ELSE
    LET angle_change == c - lcy IN
    IF GoingAway(c, angle_change) THEN
      LET f1 == IF MayArm(b.found, b.in_place) /\ Abs(angle_change) >= bump_threshold
                THEN t ELSE b.found
          expire == f1 # None /\ f1 + bump_delay <= t
          f2 == IF expire THEN None ELSE f1
          p2 == IF expire THEN t ELSE b.in_place
      IN
      IF p2 # None THEN
        IF p2 + bump_len <= t
        THEN [found |-> f2, in_place |-> None, bump |-> 0, output |-> b.output]
        ELSE LET v == BumpValue(c) IN
             [found |-> f2, in_place |-> p2, bump |-> v,
              output |-> IF angle_change > 0 THEN b.output - v ELSE b.output + v]
      ELSE [found |-> f2, in_place |-> p2, bump |-> b.bump, output |-> b.output]
    ELSE [found |-> None, in_place |-> None, bump |-> 0, output |-> b.output]

\* -------------------------------------------------------------------- PID
\* Errors, set points and p, i are in units of 0.0001; gains are in
\* twentieths (GainUnit); d and the output are exact fractions
\* <<numerator, denominator>>.

\* PID.__init__ defaults, line 19.
dead_band == 1
i_gain_scale == 1
d_gain_scale == 100
GainUnit == 20
p_gain == 15
i_gain == 4
d_gain == 1
gain == 20
\* Line 83: abs(error) <= 0.1
IntegralBand == 1000

\* PID.__init__, lines 20-36.
PidNew ==
  [set_point |-> 0, p |-> 0, i |-> 0, d |-> <<0, 1>>,
   kp |-> p_gain, ki |-> i_gain, kd |-> d_gain, kg |-> gain,
   last_error |-> 0, last_time |-> 0, last_output |-> <<0, 1>>,
   last_delta |-> 0, first |-> TRUE]

\* Line 36: the default difference, lambda x, y: x - y.
Difference(x, y) == x - y

\* PidError without the dead band.
PidError_NoDeadBand(set_point, current) == Difference(set_point, current)

\* Lines 67-69: the error after the dead band.
PidError(set_point, current) ==
  LET error == Difference(set_point, current)
  IN IF Abs(error) <= dead_band THEN 0 ELSE error

\* PidIntegral without the reset on a sign flip.
PidIntegral_NoFlipReset(i, last_error, error, delta_time) ==
  IF Abs(error) <= IntegralBand THEN 0
  ELSE i + error * delta_time * i_gain_scale

\* PidIntegral that keeps integrating an error of 0.1 exactly.
PidIntegral_StrictBand(i, last_error, error, delta_time) ==
  IF (last_error < 0 /\ 0 < error) \/ (last_error > 0 /\ 0 > error) THEN 0
  ELSE IF Abs(error) < IntegralBand THEN 0
  ELSE i + error * delta_time * i_gain_scale

\* Lines 81-86: the integral term after a call with this error.
PidIntegral(i, last_error, error, delta_time) ==
  IF (last_error < 0 /\ 0 < error) \/ (last_error > 0 /\ 0 > error) THEN 0
  ELSE IF Abs(error) <= IntegralBand THEN 0
  ELSE i + error * delta_time * i_gain_scale

\* PidDerivative that divides whatever delta_time is.
PidDerivative_Always(d, last_error, error, delta_time) ==
  <<error - last_error, delta_time * d_gain_scale>>

\* Lines 88-89: the derivative term.
PidDerivative(d, last_error, error, delta_time) ==
  IF delta_time > 0 THEN <<error - last_error, delta_time * d_gain_scale>> ELSE d

\* Lines 91-93: (p * kp + i * ki + d * kd) * kg as a fraction.
PidOutput(q) ==
  <<((q.p * q.kp + q.i * q.ki) * q.d[2] + q.d[1] * q.kd) * q.kg,
    GainUnit * q.d[2] * GainUnit>>

\* PidFirstCall that already sets the proportional term.
PidFirstCall_SetsP(q, set_point, error, t) ==
  [q EXCEPT !.first = FALSE, !.set_point = set_point, !.p = error,
            !.last_error = error, !.last_time = t]

\* Lines 71-76: the first call.
PidFirstCall(q, set_point, error, t) ==
  [q EXCEPT !.first = FALSE, !.set_point = set_point,
            !.last_error = error, !.last_time = t]

\* Lines 78-99: every later call.
PidLaterCall(q, set_point, error, t) ==
  LET delta_time == t - q.last_time
      q1 == [q EXCEPT !.p = error,
                      !.i = PidIntegral(q.i, q.last_error, error, delta_time),
                      !.d = PidDerivative(q.d, q.last_error, error, delta_time)]
  IN [q1 EXCEPT !.set_point = set_point, !.last_output = PidOutput(q1),
                !.last_error = error, !.last_time = t, !.last_delta = delta_time]

\* PID.process, lines 64-101, called dt ticks after the previous clock
\* reading.
Process(set_point, current, dt) ==
  /\ pid_calls < MaxCalls
  /\ LET t == pid_clock + dt
         error == PidError(set_point, current)
     IN /\ pid_clock' = t
        /\ pid' = IF pid.first THEN PidFirstCall(pid, set_point, error, t)
                  ELSE PidLaterCall(pid, set_point, error, t)
        /\ pid_ret' = IF pid.first THEN <<0, 1>> ELSE pid'.last_output
  /\ pid_calls' = pid_calls + 1
  /\ UNCHANGED <<engineVars, clientVars, wireVars, callVars>>

InitPid ==
  /\ pid = PidNew
  /\ pid_clock = ClockStart
  /\ pid_ret = <<0, 1>>
  /\ pid_calls = 0

\* --------------------------------------------------------- sensor drivers
\* One axis stands for the three, which the drivers treat alike.  Driver
\* timestamps are re-based like the loop's: after every clock reading the
\* reading is Origin.

\* buffer_len_in_time (ticks; gyro.py 97, accel.py 99) and the duration
\* Balance.calibrate asks for (ticks; balancing.py 274, 279).
buffer_len_in_time == 2
CalibrationTime == 1
\* A driver operation comes 1 .. DriverMaxDt ticks after the previous one.
DriverMaxDt == 3
\* calibrate commands received.
MaxCalibrations == 2

\* fix_for_1g folds offsets beyond half a g (accel.py 124, 126); 1 g.
HalfG == 500
OneG == 1000
\* accel.py 16: SCALE_MULTIPLIER = 0.00390625 = 1 / 256 g per count.
ScaleDivisor == 256
\* raw * SCALE_MULTIPLIER, in thousandths of g.
Scaled(raw) == (raw * OneG) \div ScaleDivisor
\* gyro.py 101: self.filter = 0.3, percent.
GyroFilter == 30

\* Raw readings the sensors deliver.
GyroDeltas == {4}
AccelRaws == {64, 256}
\* Orientation accumulated by the time a calibrate command arrives.
DriverCy == {0, 3}

\* time = 0 of a fresh _DataPoint (gyro.py 54, accel.py 41): older than
\* every window; ages beyond it are not told apart.
Epoch == Origin - (buffer_len_in_time + DriverMaxDt)

\* The buffer after the clock has moved forward by dt.
RebaseBuffer(buf, dt) ==
  [i \in DOMAIN buf |->
     [buf[i] EXCEPT !.time = IF @ - dt < Epoch THEN Epoch ELSE @ - dt]]

\* gyro.py 168-170, accel.py 185-187: the head of the buffer is taken out
\* (to be reused) when it is older than the window.
EvictHead(buf, now) ==
  IF Len(buf) > 0 /\ buf[1].time < now - buffer_len_in_time THEN Tail(buf) ELSE buf

\* gyro.py 228-234: the filtered position, with the sensitivity as unit.
GyroPosition(py, d, c, f) == ((d - c) * f + (100 - f) * py) \div 100

RECURSIVE CalibrationReads(_, _, _)
\* gyro.py 143-150, accel.py 141-148: the samples counted, from index i
\* down while they are not older than last_time.
CalibrationReads(buf, i, last_time) ==
  IF i >= 1 /\ buf[i].time >= last_time
  THEN 1 + CalibrationReads(buf, i - 1, last_time) ELSE 0

RECURSIVE GyroSum(_, _, _)
\* gyro.py 145-148: the sum of the deltas of those samples.
GyroSum(buf, i, last_time) ==
  IF i >= 1 /\ buf[i].time >= last_time
  THEN buf[i].d + GyroSum(buf, i - 1, last_time) ELSE 0

RECURSIVE AccelSum(_, _, _)
\* accel.py 143-146: the sum of the scaled raw values of those samples.
AccelSum(buf, i, last_time) ==
  IF i >= 1 /\ buf[i].time >= last_time
  THEN Scaled(buf[i].raw) + AccelSum(buf, i - 1, last_time) ELSE 0

\* L3G4200D.calibrate, gyro.py 131-156, at clock reading now: the offset
\* it leaves and whether the division of lines 152-154 raised
\* ZeroDivisionError (the offsets were set to 0 at lines 133-135).
GyroCalibrate(buf, now) ==
  LET last_time == now - CalibrationTime
      reads == CalibrationReads(buf, Len(buf), last_time)
  IN IF reads = 0 THEN [raised |-> TRUE, c |-> 0]
     ELSE [raised |-> FALSE, c |-> GyroSum(buf, Len(buf), last_time) \div reads]

\* accel.py 123-128
fix_for_1g(offset) ==
  LET o1 == IF offset > HalfG THEN offset - OneG ELSE offset
  IN IF o1 < -HalfG THEN o1 + OneG ELSE o1

\* ADXL345.calibrate, accel.py 122-155: the offset it leaves.
AccelCalibrate(buf, now) ==
  LET last_time == now - CalibrationTime
      reads == CalibrationReads(buf, Len(buf), last_time)
  IN IF reads > 0 THEN fix_for_1g(AccelSum(buf, Len(buf), last_time) \div reads)
     ELSE 0

\* What the driver operations leave alone.
driverFrame == <<state, bump_found, bump_in_place, combine_factor_gyro, pid_accepts,
                 bump_threshold, bump_delay, bump_len,
                 pc, last_cy, bump, control, last_state, had_exception,
                 sampled, iter_logs, cmds, err_printed, episode, first_active,
                 run_side, bump_dropped, svc, last_cmd, pidVars, gyro_filter,
                 settingVars, callVars, clientVars, wireVars>>

\* Lines 110-111 of run_loop, both succeeding: gyro.read_deltas() (gyro.py
\* 166-236, idle mode: one data point) and accel.read() (accel.py 157-211),
\* dt ticks after the previous driver operation.
ReadSensors(dt, d, raw) ==
  /\ gyro_data_buffer' =
       Append(EvictHead(RebaseBuffer(gyro_data_buffer, dt), Origin),
              [time |-> Origin, d |-> d])
  /\ gyro_py' = GyroPosition(gyro_py, d, gyro_cy, gyro_filter)
  /\ accel_data_buffer' =
       Append(EvictHead(RebaseBuffer(accel_data_buffer, dt), Origin),
              [time |-> Origin, raw |-> raw])
  /\ drv_last' = "read"
  /\ UNCHANGED <<cy, gyro_cy, accel_y_offset, calib, calibs, cy_writer, driverFrame>>

\* gyro.read_deltas() raises (bus error): at the status read of line 199,
\* before the buffer is touched, or at the block read of line 174, after
\* the head was taken out at line 170 and before the append of line 185.
GyroReadFails(dt, late) ==
  /\ gyro_data_buffer' =
       IF late THEN EvictHead(RebaseBuffer(gyro_data_buffer, dt), Origin)
       ELSE RebaseBuffer(gyro_data_buffer, dt)
  /\ accel_data_buffer' = RebaseBuffer(accel_data_buffer, dt)
  /\ drv_last' = "gyro_failed"
  /\ UNCHANGED <<cy, gyro_cy, gyro_py, accel_y_offset, calib, calibs, cy_writer,
                 driverFrame>>

\* Payloads of the calibrate command and what startswith finds in them
\* (balancing.py 272, 277, 281).
CalibratePayloads == {"gyro", "accel", "all", "gyroscope", ""}
StartsWith(payload, prefix) ==
  \/ payload = prefix
  \/ payload = "gyroscope" /\ prefix = "gyro"

\* Balance.calibrate, balancing.py 271-293, called by
\* BalancingService.calibrate (balance_main.py 35-36) on the command
\* thread, dt ticks after the previous driver operation.
Calibrate(what, dt) ==
  /\ calibs < MaxCalibrations
  /\ calibs' = calibs + 1
  /\ LET gb == RebaseBuffer(gyro_data_buffer, dt)
         ab == RebaseBuffer(accel_data_buffer, dt)
         g == GyroCalibrate(gb, Origin)
         a == AccelCalibrate(ab, Origin)
     IN /\ gyro_data_buffer' = gb
        /\ accel_data_buffer' = ab
        /\ IF StartsWith(what, "gyro") THEN
             /\ gyro_cy' = g.c
             /\ gyro_py' = IF g.raised THEN gyro_py ELSE 0
             /\ calib' = [what |-> what, raised |-> g.raised]
             /\ UNCHANGED <<accel_y_offset, cy, cy_writer>>
           ELSE IF StartsWith(what, "accel") THEN
             /\ accel_y_offset' = a
             /\ calib' = [what |-> what, raised |-> FALSE]
             /\ UNCHANGED <<gyro_cy, gyro_py, cy, cy_writer>>
           ELSE IF StartsWith(what, "all") THEN
             /\ gyro_cy' = g.c
             /\ gyro_py' = IF g.raised THEN gyro_py ELSE 0
             /\ accel_y_offset' = IF g.raised THEN accel_y_offset ELSE a
             /\ cy' = IF g.raised THEN cy ELSE 0
             /\ cy_writer' = IF g.raised THEN cy_writer ELSE "command"
             /\ calib' = [what |-> what, raised |-> g.raised]
           ELSE
             /\ calib' = [what |-> what, raised |-> FALSE]
             /\ UNCHANGED <<gyro_cy, gyro_py, accel_y_offset, cy, cy_writer>>
  /\ drv_last' = "calibrate"
  /\ UNCHANGED driverFrame

\* L3G4200D.__init__ (gyro.py 88-101), ADXL345.__init__ (accel.py 85-100).
InitDrivers ==
  /\ gyro_data_buffer = <<[time |-> Epoch, d |-> 0]>>
  /\ accel_data_buffer = <<[time |-> Epoch, raw |-> 0]>>
  /\ gyro_cy = 0
  /\ gyro_py = 0
  /\ accel_y_offset = 0
  /\ gyro_filter = GyroFilter
  /\ drv_last = "none"
  /\ calib = [what |-> "none", raised |-> FALSE]
  /\ calibs = 0
  /\ cy_writer = "loop"

\* ------------------------------------------------- configuration topics
\* A topic storage/write/balance/<group>/<name> is the pair <<group, name>>;
\* the handlers' slices topic[32:] and topic[27:] (balance_main.py 88, 108,
\* 124) yield the name.

\* Messages published on the configuration topics.
MaxPublishes == 2

\* accel.py 94: self.filter = 0.5, percent.
AccelFilter == 50

\* Payloads, and float(payload) in thousandths for those float() accepts;
\* for the others float() raises ValueError.
ConfigPayloads == {"abc", "1", "2"}
FloatOf == [x \in {"1", "2"} |-> IF x = "1" THEN 1000 ELSE 2000]
Float(payload) ==
  IF payload \in DOMAIN FloatOf THEN [raised |-> FALSE, v |-> FloatOf[payload]]
  ELSE [raised |-> TRUE, v |-> 0]

\* A float in the unit the model keeps the field in.
Percent(v) == v \div 10
Gain(v) == (v * GainUnit) \div 1000
Degrees(v) == v \div 1000
Ticks(v) == v \div 100

GainNames == {"p", "i", "d", "g"}
BumpNames == {"threshold", "delay", "gain", "step", "len"}

\* balance_main.py 154-171: the topics subscribed.
Subscribed ==
  {<<"gyro", "filter">>, <<"accel", "filter">>, <<"combine_factor_gyro", "">>}
    \cup {<<"pid_inner", n>> : n \in GainNames}
    \cup {<<"pid_outer", n>> : n \in GainNames}
    \cup {<<"bump", n>> : n \in {"threshold", "delay", "step", "gain"}}

\* The topics of the live settings.
ConfigTopics == Subscribed \cup {<<"bump", n>> : n \in BumpNames}

\* No field: the handler wrote nothing.
NoField == <<"none", "">>

\* A PID with one gain written, when the field is one of obj.
SetGain(q, obj, field, v) ==
  IF field[1] # obj THEN q
  ELSE IF field[2] = "p" THEN [q EXCEPT !.kp = v]
  ELSE IF field[2] = "i" THEN [q EXCEPT !.ki = v]
  ELSE IF field[2] = "d" THEN [q EXCEPT !.kd = v]
  ELSE IF field[2] = "g" THEN [q EXCEPT !.kg = v]
  ELSE q

\* The settings after v (a float, thousandths) was assigned to field, all
\* others as they were.
WriteSetting(field, v) ==
  /\ gyro_filter' = IF field = <<"gyro", "filter">> THEN Percent(v) ELSE gyro_filter
  /\ accel_filter' = IF field = <<"accel", "filter">> THEN Percent(v) ELSE accel_filter
  /\ combine_factor_gyro' =
       IF field = <<"combine_factor_gyro", "">> THEN Percent(v) ELSE combine_factor_gyro
  /\ pid' = SetGain(pid, "pid_inner", field, Gain(v))
  /\ pid_outer' = SetGain(pid_outer, "pid_outer", field, Gain(v))
  /\ bump_threshold' = IF field = <<"bump", "threshold">> THEN Degrees(v) ELSE bump_threshold
  /\ bump_delay' = IF field = <<"bump", "delay">> THEN Ticks(v) ELSE bump_delay
  /\ bump_gain' = IF field = <<"bump", "gain">> THEN v ELSE bump_gain
  /\ bump_step' = IF field = <<"bump", "step">> THEN v ELSE bump_step
  /\ bump_len' = IF field = <<"bump", "len">> THEN Ticks(v) ELSE bump_len

\* What no configuration handler writes.
configFrame == <<state, cy, bump_found, bump_in_place, pid_accepts,
                 pc, last_cy, bump, control, last_state, had_exception,
                 sampled, iter_logs, cmds, err_printed, episode, first_active,
                 run_side, bump_dropped, svc, last_cmd,
                 pid_clock, pid_ret, pid_calls,
                 gyro_data_buffer, accel_data_buffer, gyro_cy, gyro_py,
                 accel_y_offset, drv_last, calib, calibs, cy_writer, callVars,
                 clientVars, wireVars>>

\* A message is published on topic; pyroslib calls the handler subscribed
\* to it, if any, on the command thread.
Publish(topic, payload) ==
  /\ publishes < MaxPublishes
  /\ publishes' = publishes + 1
  /\ published' = <<topic, payload>>
  /\ UNCHANGED configFrame

\* A handler that assigns float(payload) with no try around it: lines
\* 74-76, 78-80, 82-84.
AssignFloat(field, payload) ==
  LET f == Float(payload)
  IN /\ WriteSetting(IF f.raised THEN NoField ELSE field, f.v)
     /\ handler_raised' = f.raised

\* gyro_filter_changed, balance_main.py 74-76.
GyroFilterChanged(payload) ==
  /\ <<"gyro", "filter">> \in Subscribed
  /\ Publish(<<"gyro", "filter">>, payload)
  /\ AssignFloat(<<"gyro", "filter">>, payload)

\* accel_filter_changed, balance_main.py 78-80.
AccelFilterChanged(payload) ==
  /\ <<"accel", "filter">> \in Subscribed
  /\ Publish(<<"accel", "filter">>, payload)
  /\ AssignFloat(<<"accel", "filter">>, payload)

\* combine_factor_gyro_changed, balance_main.py 82-84.
CombineFactorGyroChanged(payload) ==
  /\ <<"combine_factor_gyro", "">> \in Subscribed
  /\ Publish(<<"combine_factor_gyro", "">>, payload)
  /\ AssignFloat(<<"combine_factor_gyro", "">>, payload)

\* The body of pid_inner_changed, pid_outer_changed and bump_changed: the
\* assignment chosen by name inside try / except Exception (lines 90-104,
\* 110-120, 126-139).
AssignInTry(obj, names, name, payload) ==
  LET f == Float(payload)
  IN /\ WriteSetting(IF f.raised \/ name \notin names THEN NoField ELSE <<obj, name>>,
                     f.v)
     /\ handler_raised' = FALSE

\* pid_inner_changed, balance_main.py 86-104.
PidInnerChanged(name, payload) ==
  /\ <<"pid_inner", name>> \in Subscribed
  /\ Publish(<<"pid_inner", name>>, payload)
  /\ AssignInTry("pid_inner", GainNames, name, payload)

\* pid_outer_changed, balance_main.py 106-120.
PidOuterChanged(name, payload) ==
  /\ <<"pid_outer", name>> \in Subscribed
  /\ Publish(<<"pid_outer", name>>, payload)
  /\ AssignInTry("pid_outer", GainNames, name, payload)

\* bump_changed, balance_main.py 122-139.
BumpChanged(name, payload) ==
  /\ <<"bump", name>> \in Subscribed
  /\ Publish(<<"bump", name>>, payload)
  /\ AssignInTry("bump", BumpNames, name, payload)

\* A message on a topic nobody subscribed to: no handler runs.
PublishUnsubscribed(topic, payload) ==
  /\ topic \notin Subscribed
  /\ Publish(topic, payload)
  /\ WriteSetting(NoField, 0)
  /\ handler_raised' = FALSE

\* The fields the handlers have not written yet.
InitSettings ==
  /\ accel_filter = AccelFilter
  /\ pid_outer = PidNew
  /\ published = <<NoField, "">>
  /\ handler_raised = FALSE
  /\ publishes = 0

\* ------------------------------------------------------ single functions

\* Calls of update_gains_from_map.
MaxGainCalls == 2

\* The maps update_gains_from_map is given: any of the names p, i, d, g
\* may be missing, and an entry may be one float() rejects.
GainsMaps == UNION {[names -> ConfigPayloads] : names \in SUBSET GainNames}
EmptyMap == [name \in {} |-> ""]

\* to_value with no try around the conversion.
to_value_NoExcept(gains_map, name, default) ==
  IF name \in DOMAIN gains_map /\ ~Float(gains_map[name]).raised
  THEN [raised |-> FALSE, v |-> Gain(Float(gains_map[name]).v)]
  ELSE [raised |-> TRUE, v |-> default]

\* to_value, pid.py 39-44: float(gains_map[name]), or default on any
\* exception (KeyError of a missing name, ValueError of float()).
to_value(gains_map, name, default) ==
  IF name \in DOMAIN gains_map /\ ~Float(gains_map[name]).raised
  THEN [raised |-> FALSE, v |-> Gain(Float(gains_map[name]).v)]
  ELSE [raised |-> FALSE, v |-> default]

\* pid.py 46-49: the defaults 0.75, 0.2, 0.05 and 1.0.
GainDefaults == [p |-> Gain(750), i |-> Gain(200), d |-> Gain(50), g |-> Gain(1000)]

\* PID.update_gains_from_map, pid.py 38-50; an exception leaves the
\* assignments from its line on undone.
UpdateGainsFromMap(gains_map) ==
  /\ gains_call.calls < MaxGainCalls
  /\ LET kp == to_value(gains_map, "p", GainDefaults.p)
         ki == to_value(gains_map, "i", GainDefaults.i)
         kd == to_value(gains_map, "d", GainDefaults.d)
         kg == to_value(gains_map, "g", GainDefaults.g)
         r1 == kp.raised
         r2 == r1 \/ ki.raised
         r3 == r2 \/ kd.raised
         r4 == r3 \/ kg.raised
     IN /\ pid' = [pid EXCEPT !.kp = IF r1 THEN @ ELSE kp.v,
                              !.ki = IF r2 THEN @ ELSE ki.v,
                              !.kd = IF r3 THEN @ ELSE kd.v,
                              !.kg = IF r4 THEN @ ELSE kg.v]
        /\ gains_call' = [calls |-> gains_call.calls + 1, map |-> gains_map,
                          raised |-> r4]
  /\ UNCHANGED <<engineVars, clientVars, wireVars, pid_clock, pid_ret, pid_calls, angle_call, motor_call, filter_call, bump_call, gyro_read,
               logger, logged>>

\* pid.py 58-61: half a turn and a full turn, degrees.
HalfTurn == 180
FullTurn == 360

\* The angles angle_difference is called with: every AngleStep degrees up
\* to MaxAngle, and the degrees next to half a turn.
MaxAngle == 190
AngleStep == 30
Angles ==
  {k * AngleStep : k \in -(MaxAngle \div AngleStep) .. (MaxAngle \div AngleStep)}
    \cup {a \in -MaxAngle .. MaxAngle : Abs(Abs(a) - HalfTurn) <= 1}

\* PID.angle_difference without the wrapping of lines 58-61.
angle_difference_NoWrap(a1, a2) == a1 - a2

\* PID.angle_difference, pid.py 55-62.
angle_difference(a1, a2) ==
  LET diff == a1 - a2
  IN IF diff >= HalfTurn THEN diff - FullTurn
     ELSE IF diff <= -HalfTurn THEN diff + FullTurn
     ELSE diff

\* A call of PID.angle_difference.
AngleDifference(a1, a2) ==
  /\ angle_call' = [called |-> TRUE, a1 |-> a1, a2 |-> a2,
                    ret |-> angle_difference(a1, a2)]
  /\ UNCHANGED <<engineVars, clientVars, wireVars, pidVars, gains_call, motor_call, filter_call, bump_call, gyro_read,
               logger, logged>>

\* Speeds are in units of 0.00001 and duty cycles in thousandths of a
\* percent, so that speed * 100.0 keeps the number.
SpeedUnit == 100000
DutyUnit == 1000

\* The speeds the motors are given: every SpeedStep up to MaxSpeedSteps of
\* them, and the values next to the thresholds of sanitise_speed.
SpeedStep == 2500
MaxSpeedSteps == 60
SpeedEdges == {0, 1, 2, 9, 10, 11, 999, 1000, 1001, 99999, 100000, 100001}
Speeds ==
  {k * SpeedStep : k \in -MaxSpeedSteps .. MaxSpeedSteps}
    \cup SpeedEdges \cup {-e : e \in SpeedEdges}

\* sanitise_speed without the clamps of lines 57-60 and 64-67.
sanitise_speed_NoClamp(speed) ==
  IF speed > 10 THEN <<speed, 1>>
  ELSE IF speed < -1 THEN <<-speed, -1>>
  ELSE <<0, 0>>

\* PIGPIOMotors.sanitise_speed, pigpio_motors.py 53-71: (speed, direction).
PIGPIOMotors_sanitise_speed(speed) ==
  IF speed > 10
  THEN LET duty == speed
       IN <<IF duty > 100 * DutyUnit THEN 100 * DutyUnit
            ELSE IF duty < DutyUnit THEN 0 ELSE duty, 1>>
  ELSE IF speed < -1
  THEN LET duty == -speed
       IN <<IF duty > 100 * DutyUnit THEN 100 * DutyUnit
            ELSE IF duty < DutyUnit THEN 0 ELSE duty, -1>>
  ELSE <<0, 0>>

\* RPiGPIOMotors.sanitise_speed, rpi_gpio_motors.py 58-76: the same code.
RPiGPIOMotors_sanitise_speed(speed) ==
  IF speed > 10
  THEN LET duty == speed
       IN <<IF duty > 100 * DutyUnit THEN 100 * DutyUnit
            ELSE IF duty < DutyUnit THEN 0 ELSE duty, 1>>
  ELSE IF speed < -1
  THEN LET duty == -speed
       IN <<IF duty > 100 * DutyUnit THEN 100 * DutyUnit
            ELSE IF duty < DutyUnit THEN 0 ELSE duty, -1>>
  ELSE <<0, 0>>

\* left_speed / right_speed of the pigpio driver up to their call of
\* sanitise_speed (pigpio_motors.py 73-74, 97-98).
PIGPIOSpeed(speed) ==
  /\ motor_call' = [driver |-> "pigpio", speed |-> speed,
                    ret |-> PIGPIOMotors_sanitise_speed(speed)]
  /\ UNCHANGED <<engineVars, clientVars, wireVars, pidVars, gains_call, angle_call, filter_call, bump_call, gyro_read,
               logger, logged>>

\* The same of the RPi.GPIO driver.
RPiGPIOSpeed(speed) ==
  /\ motor_call' = [driver |-> "rpi_gpio", speed |-> speed,
                    ret |-> RPiGPIOMotors_sanitise_speed(speed)]
  /\ UNCHANGED <<engineVars, clientVars, wireVars, pidVars, gains_call, angle_call, filter_call, bump_call, gyro_read,
               logger, logged>>

\* The orientations, gyro increments, accelerometer angles (degrees) and
\* weights (percent) line 130 is run with.
MaxFilterDeg == 2
FilterWeights == {0, 50, 100}

\* balancing.py 38: max_deg = 45.0, the operating range in degrees.
OperatingDeg == 45

\* Orientations of the operating range, away from zero.
BumpDegs == (-OperatingDeg .. OperatingDeg) \ {0}

\* balancing.py 140-167 on its own, for a sample at orientation c that has
\* moved one degree away from zero since the previous sample, while a bump
\* activated one tick earlier is in place: the PID output po before and
\* after the adjustment.
BumpCall(c, po) ==
  /\ c \in BumpDegs
  /\ LET lcy == IF c > 0 THEN c - 1 ELSE c + 1
         r == BumpProcess(c, lcy, Origin,
                [found |-> None, in_place |-> Origin - 1, bump |-> 0, output |-> po])
     IN bump_call' = [called |-> TRUE, c |-> c, before |-> po, after |-> r.output,
                      bump |-> r.bump, active |-> r.in_place # None]
  /\ UNCHANGED <<engineVars, clientVars, wireVars, pidVars, gains_call, angle_call, motor_call,
               filter_call, gyro_read, logger, logged>>

\* ------------------------------------------------- the raw sensor words
\* Bytes the bus hands over for the low and the high half of a word: the
\* ends of 0..255 and, for the half with the sign bit, its middle.
LowBytes == {0, 255}
HighBytes == {0, 127, 128, 255}

\* Registers read again and again: the readings of STATUS_REG and of
\* FIFO_SRC_REG, in order.  The last reading of a sequence is what the
\* register goes on showing.
MaxReadings == 2
Readings(bytes) == UNION {[1 .. n -> bytes] : n \in 1 .. MaxReadings}
StatusReadings == Readings({0, 15, 255})
FifoReadings == Readings({0, 1, 255})

\* The gyro after gyro.start(): FIFO stream mode.
is_idle_Started == FALSE

\* gyro.py 99, 115, 123-125: init_gyro ends with self.idle(); start()
\* (127-129) is called nowhere in the engine or the service.
is_idle == TRUE

\* gyro.py 176-177: _dx = data[1] * 256 + data[0];
\* _dx = _dx - 65536 if _dx > 32767 else _dx
SignedWord(lo, hi) ==
  LET w == hi * 256 + lo
  IN IF w > 32767 THEN w - 65536 ELSE w

\* gyro.py 201: (status & 0xf) != 0xf, the condition to go on waiting.
DataReady(status) == status % 16 = 15

\* gyro.py 218: fifo_status & 0x1f != 0, the condition to go on draining.
FifoEmpty(fifo_status) == fifo_status % 32 = 0

\* gyro.py 198-205, after the k-th reading of STATUS_REG: the loop ends
\* when the data are ready or the gyro is idle, and otherwise reads again;
\* it never ends when the register goes on showing data not ready.
RECURSIVE WaitForData(_, _)
WaitForData(statuses, k) ==
  IF DataReady(statuses[k]) \/ is_idle
  THEN [returned |-> TRUE, status |-> statuses[k], waited_for_data |-> k > 1,
        bus_reads |-> k]
  ELSE IF k = Len(statuses)
  THEN [returned |-> FALSE, status |-> statuses[k], waited_for_data |-> TRUE,
        bus_reads |-> k]
  ELSE WaitForData(statuses, k + 1)

\* gyro.py 207-209: 256 is added to the status when the loop waited, and
\* 1024 always.
StatusWord(status, waited_for_data) ==
  (IF waited_for_data THEN status + 256 ELSE status) + 1024

\* gyro.py 218-223, after the k-th reading of FIFO_SRC_REG: a block read
\* and another reading while the FIFO is not empty; the loop never ends when
\* the register goes on showing a FIFO that is not empty.
RECURSIVE DrainFifo(_, _)
DrainFifo(fifos, k) ==
  IF FifoEmpty(fifos[k])
  THEN [returned |-> TRUE, data_points |-> k - 1, bus_reads |-> 2 * k - 1]
  ELSE IF k = Len(fifos)
  THEN [returned |-> FALSE, data_points |-> k, bus_reads |-> 2 * k]
  ELSE DrainFifo(fifos, k + 1)

\* gyro.py 211-223: the FIFO status is read; an idle gyro makes one block
\* read, a started one drains the FIFO.
CollectData(fifos) ==
  IF is_idle THEN [returned |-> TRUE, data_points |-> 1, bus_reads |-> 2]
  ELSE DrainFifo(fifos, 1)

\* gyro.read_deltas (gyro.py 166-236) as far as its bus reads and the
\* values that the loop logs go: whether it returned, the number of bus
\* reads, and of its data points the delta read_data makes of two bytes
\* (here those of the x axis), the status and the FIFO status.
ReadDeltas(lo, hi, statuses, fifos) ==
  /\ LET w == WaitForData(statuses, 1)
         c == CollectData(fifos)
     IN gyro_read' = [called |-> TRUE,
                      returned |-> w.returned /\ c.returned,
                      bus_reads |-> IF w.returned THEN w.bus_reads + c.bus_reads
                                    ELSE w.bus_reads,
                      dx |-> SignedWord(lo, hi),
                      status |-> StatusWord(w.status, w.waited_for_data),
                      fifo_status |-> fifos[1],
                      data_points |-> c.data_points]
  /\ UNCHANGED <<engineVars, clientVars, wireVars, pidVars, gains_call, angle_call, motor_call,
               filter_call, bump_call, logger, logged>>

\* balancing.py 130 on its own: self.cy from self.cy, gyro_y / freq,
\* accel_pitch and self.combine_factor_gyro.
FilterStep(c, g, a, w) ==
  /\ filter_call' = [called |-> TRUE, c |-> c, g |-> g, a |-> a, w |-> w,
                     ret |-> Combine(c, g, a, w)]
  /\ UNCHANGED <<engineVars, clientVars, wireVars, pidVars, gains_call, angle_call, motor_call,
               bump_call, gyro_read, logger, logged>>

\* balancing.py 236-266: the add_word / add_double / add_byte calls of
\* setup_logger, in their order.
SchemaFields ==
  <<[name |-> "gdx", type |-> "word"], [name |-> "gdy", type |-> "word"],
    [name |-> "gdz", type |-> "word"],
    [name |-> "gx", type |-> "double"], [name |-> "gy", type |-> "double"],
    [name |-> "gz", type |-> "double"],
    [name |-> "status", type |-> "word"], [name |-> "fifo_status", type |-> "byte"],
    [name |-> "data_points", type |-> "byte"],
    [name |-> "adx", type |-> "word"], [name |-> "ady", type |-> "word"],
    [name |-> "adz", type |-> "word"],
    [name |-> "ax", type |-> "double"], [name |-> "ay", type |-> "double"],
    [name |-> "az", type |-> "double"],
    [name |-> "apitch", type |-> "double"], [name |-> "aroll", type |-> "double"],
    [name |-> "ayaw", type |-> "double"],
    [name |-> "cx", type |-> "double"], [name |-> "cy", type |-> "double"],
    [name |-> "cz", type |-> "double"],
    [name |-> "pi_p", type |-> "double"], [name |-> "pi_i", type |-> "double"],
    [name |-> "pi_d", type |-> "double"],
    [name |-> "pi_pg", type |-> "double"], [name |-> "pi_ig", type |-> "double"],
    [name |-> "pi_dg", type |-> "double"],
    [name |-> "pi_dt", type |-> "double"], [name |-> "pi_o", type |-> "double"],
    [name |-> "out", type |-> "double"], [name |-> "bump", type |-> "double"]>>

\* Balance.setup_logger, balancing.py 233-269.
SetupLogger ==
  /\ ~logger.inited
  /\ logger' = [fields |-> SchemaFields, inited |-> TRUE]
  /\ UNCHANGED <<engineVars, clientVars, wireVars, pidVars, gains_call, angle_call, motor_call,
                 filter_call, bump_call, gyro_read, logged>>

\* The arguments of the log call with the final `control` left out.
LogArguments_NoControl(c, q, dt, output, ctl, b) ==
  <<(<<"gyro_dx", 0>>), (<<"gyro_dy", 0>>), (<<"gyro_dz", 0>>),
    (<<"gyro_x", 0>>), (<<"gyro_y", 0>>), (<<"gyro_z", 0>>),
    (<<"gyro_data_point.status", 0>>), (<<"gyro_data_point.fifo_status", 0>>),
    (<<"len(gyro_data_points)", 1>>),
    (<<"accel_dx", 0>>), (<<"accel_dy", 0>>), (<<"accel_dz", 0>>),
    (<<"accel_x", 0>>), (<<"accel_y", 0>>), (<<"accel_z", 0>>),
    (<<"accel_pitch", 0>>), (<<"accel_roll", 0>>), (<<"accel_yav", 0>>),
    (<<"self.cx", 0>>), (<<"self.cy", c>>), (<<"self.cz", 0>>),
    (<<"self.pid_inner.p", q.p>>), (<<"self.pid_inner.i", q.i>>),
    (<<"self.pid_inner.d", q.d>>),
    (<<"self.pid_inner.p * self.pid_inner.kp", q.p * q.kp>>),
    (<<"self.pid_inner.i * self.pid_inner.ki", q.i * q.ki>>),
    (<<"self.pid_inner.d * self.pid_inner.kd", <<q.d[1] * q.kd, q.d[2]>> >>),
    (<<"delta_time", dt>>), (<<"output", output>>), (<<"bump", b>>)>>

\* balancing.py 193-205: the arguments of self._logger.log after
\* time.time(), each as <<expression, value>>; the sensor values the model
\* does not carry are 0.
LogArguments(c, q, dt, output, ctl, b) ==
  <<(<<"gyro_dx", 0>>), (<<"gyro_dy", 0>>), (<<"gyro_dz", 0>>),
    (<<"gyro_x", 0>>), (<<"gyro_y", 0>>), (<<"gyro_z", 0>>),
    (<<"gyro_data_point.status", 0>>), (<<"gyro_data_point.fifo_status", 0>>),
    (<<"len(gyro_data_points)", 1>>),
    (<<"accel_dx", 0>>), (<<"accel_dy", 0>>), (<<"accel_dz", 0>>),
    (<<"accel_x", 0>>), (<<"accel_y", 0>>), (<<"accel_z", 0>>),
    (<<"accel_pitch", 0>>), (<<"accel_roll", 0>>), (<<"accel_yav", 0>>),
    (<<"self.cx", 0>>), (<<"self.cy", c>>), (<<"self.cz", 0>>),
    (<<"self.pid_inner.p", q.p>>), (<<"self.pid_inner.i", q.i>>),
    (<<"self.pid_inner.d", q.d>>),
    (<<"self.pid_inner.p * self.pid_inner.kp", q.p * q.kp>>),
    (<<"self.pid_inner.i * self.pid_inner.ki", q.i * q.ki>>),
    (<<"self.pid_inner.d * self.pid_inner.kd", <<q.d[1] * q.kd, q.d[2]>> >>),
    (<<"delta_time", dt>>), (<<"output", output>>), (<<"control", ctl>>),
    (<<"bump", b>>)>>

\* The orientations, PID outputs and bumps the log call is made with.
MaxLogDeg == 2
LogOutputs == {-500, 0, 500}
LogBumps == {0, BumpStep}

\* balancing.py 192-205: the log call of an iteration, made by the loop
\* thread that init starts (line 313) after setup_logger (line 310);
\* control is output + bump with the correction of line 177.
LogCall(c, dt, output, b) ==
  /\ logger.inited
  /\ logged' = [called |-> TRUE,
                args |-> LogArguments(c, pid, dt, output, output + b - Sin(c), b)]
  /\ UNCHANGED <<engineVars, clientVars, wireVars, pidVars, gains_call, angle_call, motor_call,
                 filter_call, bump_call, gyro_read, logger>>

\* No call made yet.
InitCalls ==
  /\ gains_call = [calls |-> 0, map |-> EmptyMap, raised |-> FALSE]
  /\ angle_call = [called |-> FALSE, a1 |-> 0, a2 |-> 0, ret |-> 0]
  /\ motor_call = [driver |-> "none", speed |-> 0, ret |-> <<0, 0>>]
  /\ filter_call = [called |-> FALSE, c |-> 0, g |-> 0, a |-> 0, w |-> 0, ret |-> 0]
  /\ bump_call = [called |-> FALSE, c |-> 0, before |-> 0, after |-> 0, bump |-> 0,
                  active |-> FALSE]
  /\ gyro_read = [called |-> FALSE, returned |-> FALSE, bus_reads |-> 0, dx |-> 0,
                  status |-> 0, fifo_status |-> 0, data_points |-> 0]
  /\ logger = [fields |-> <<>>, inited |-> FALSE]
  /\ logged = [called |-> FALSE, args |-> <<>>]

\* ------------------------------------------------- the telemetry viewer
\* CachingSocketTelemetryClient is the telemetry library's: its start, stop,
\* process_incoming_data, retrieve and trim are modelled from the
\* specification's section 4.6; the viewer's own code is modelled from
\* balancing_telemetry.py and graph_component.py. Rover and viewer read the
\* same clock.

\* Clients constructed, ticks of the clock, records waiting on the wire.
MaxClients == 2
MaxClock == 5
MaxPending == 2

\* The hosts pyros.get_connection_details() returns.
Hosts == {"rover-1", "rover-2"}

\* self.telemetry_client = None (line 276).
NoClient == [id |-> 0, host |-> "", running |-> FALSE]

\* What the receive thread and the queries leave alone.
viewerFrame == <<engineVars, pidVars, callVars, wireVars>>

rxVars == <<rx_pc, rx_had_exception, rx_printed, rx_failed, ingested>>
queryVars == <<fetches, resident_to, query, csv>>

\* CachingSocketTelemetryClient(host, port) and its start(): a new client
\* with its own connection and an empty cache.
NewClient(host) == [id |-> clients_made + 1, host |-> host, running |-> TRUE]

\* _setup_telemetry_client, balancing_telemetry.py 294-302 (the graph data
\* of lines 303 on are views of the client).
SetupTelemetryClient(host) ==
  /\ telemetry_client' = NewClient(host)
  /\ clients_made' = clients_made + 1
  /\ replaced' = IF telemetry_client.id = 0 THEN replaced
                 ELSE Append(replaced, telemetry_client)
  /\ pending' = <<>>
  /\ cache' = <<>>
  /\ resident_to' = 0

\* _connect_telemetry, balancing_telemetry.py 286-292: pyros connected to
\* host.
ConnectTelemetry(host) ==
  /\ IF telemetry_client.id = 0 \/ telemetry_client.host # host
     THEN clients_made < MaxClients /\ SetupTelemetryClient(host)
     ELSE UNCHANGED <<telemetry_client, clients_made, replaced, pending, cache, resident_to>>
  /\ collect_data' = TRUE
  /\ collecting' = "connected"
  /\ UNCHANGED <<viewerFrame, rxVars, clock, fetches, query, csv>>

\* stop_collecting that leaves the client running.
StopCollecting_FlagOnly ==
  /\ telemetry_client.id # 0
  /\ collect_data
  /\ collect_data' = FALSE
  /\ collecting' = "stopped"
  /\ UNCHANGED <<viewerFrame, rxVars, queryVars, telemetry_client, clients_made, replaced,
                 clock, pending, cache>>

\* stop_collecting, balancing_telemetry.py 411-415; its button is shown
\* once a client was set up and hidden again by the click.
StopCollecting ==
  /\ telemetry_client.id # 0
  /\ collect_data
  /\ collect_data' = FALSE
  /\ telemetry_client' = [telemetry_client EXCEPT !.running = FALSE]
  /\ collecting' = "stopped"
  /\ UNCHANGED <<viewerFrame, rxVars, queryVars, clients_made, replaced, clock, pending, cache>>

\* continue_collecting, balancing_telemetry.py 417-426; connected is
\* pyros.is_connected(), host what get_connection_details returns.
ContinueCollecting(connected, host) ==
  /\ ~collect_data
  /\ IF connected
     THEN /\ IF telemetry_client.id = 0
             THEN clients_made < MaxClients /\ SetupTelemetryClient(host)
             ELSE /\ telemetry_client' = [telemetry_client EXCEPT !.running = TRUE]
                  /\ UNCHANGED <<clients_made, replaced, pending, cache, resident_to>>
          /\ collect_data' = TRUE
          /\ collecting' = "continued"
     ELSE UNCHANGED <<telemetry_client, clients_made, replaced, pending, cache, resident_to,
                      collect_data, collecting>>
  /\ UNCHANGED <<viewerFrame, rxVars, clock, fetches, query, csv>>

\* _receive_telemetry, line 490 with _collect_data false: line 492.
RxSkip ==
  /\ rx_pc = "if"
  /\ ~collect_data
  /\ rx_had_exception' = FALSE
  /\ rx_printed' = FALSE
  /\ rx_failed' = FALSE
  /\ ingested' = FALSE
  /\ UNCHANGED <<viewerFrame, queryVars, rx_pc, collect_data, telemetry_client,
                 clients_made, replaced, collecting, clock, pending, cache>>

\* _receive_telemetry, line 490 with _collect_data true.
RxCheck ==
  /\ rx_pc = "if"
  /\ collect_data
  /\ rx_pc' = "call"
  /\ ingested' = FALSE
  /\ UNCHANGED <<viewerFrame, queryVars, rx_had_exception, rx_printed, rx_failed,
                 collect_data, telemetry_client, clients_made, replaced, collecting, clock,
                 pending, cache>>

\* process_incoming_data putting what it read in front of the cache.
RxProcess_Prepends(k) ==
  /\ rx_pc = "call"
  /\ telemetry_client.id # 0
  /\ IF telemetry_client.running
     THEN /\ k \in 1 .. Len(pending)
          /\ cache' = SubSeq(pending, 1, k) \o cache
          /\ pending' = SubSeq(pending, k + 1, Len(pending))
          /\ ingested' = TRUE
     ELSE /\ k = 0
          /\ UNCHANGED <<cache, pending>>
          /\ ingested' = FALSE
  /\ rx_had_exception' = FALSE
  /\ rx_printed' = FALSE
  /\ rx_failed' = FALSE
  /\ rx_pc' = "if"
  /\ UNCHANGED <<viewerFrame, queryVars, collect_data, telemetry_client,
                 clients_made, replaced, collecting, clock>>

\* Lines 491-492: process_incoming_data returns, having read the first k
\* waiting records into the cache; a stopped client reads none.
RxProcess(k) ==
  /\ rx_pc = "call"
  /\ telemetry_client.id # 0
  /\ IF telemetry_client.running
     THEN /\ k \in 1 .. Len(pending)
          /\ cache' = cache \o SubSeq(pending, 1, k)
          /\ pending' = SubSeq(pending, k + 1, Len(pending))
          /\ ingested' = TRUE
     ELSE /\ k = 0
          /\ UNCHANGED <<cache, pending>>
          /\ ingested' = FALSE
  /\ rx_had_exception' = FALSE
  /\ rx_printed' = FALSE
  /\ rx_failed' = FALSE
  /\ rx_pc' = "if"
  /\ UNCHANGED <<viewerFrame, queryVars, collect_data, telemetry_client,
                 clients_made, replaced, collecting, clock>>

\* The handler of lines 493-496 printing on every failure.
RxProcessRaises_PrintsAlways ==
  /\ rx_pc = "call"
  /\ rx_printed' = TRUE
  /\ rx_had_exception' = TRUE
  /\ rx_failed' = TRUE
  /\ ingested' = FALSE
  /\ rx_pc' = "if"
  /\ UNCHANGED <<viewerFrame, queryVars, collect_data, telemetry_client,
                 clients_made, replaced, collecting, clock, pending, cache>>

\* Lines 491, 493-496: process_incoming_data raises (the socket timed out,
\* a read failed, or telemetry_client is None) and the handler prints once.
RxProcessRaises ==
  /\ rx_pc = "call"
  /\ rx_printed' = ~rx_had_exception
  /\ rx_had_exception' = TRUE
  /\ rx_failed' = TRUE
  /\ ingested' = FALSE
  /\ rx_pc' = "if"
  /\ UNCHANGED <<viewerFrame, queryVars, collect_data, telemetry_client,
                 clients_made, replaced, collecting, clock, pending, cache>>

\* The rover's log call reaches the connection of the client: one record
\* per tick, stamped with the time.
ServerSends ==
  /\ telemetry_client.id # 0
  /\ clock < MaxClock
  /\ Len(pending) < MaxPending
  /\ clock' = clock + 1
  /\ pending' = Append(pending, clock + 1)
  /\ UNCHANGED <<viewerFrame, rxVars, queryVars, collect_data, telemetry_client,
                 clients_made, replaced, collecting, cache>>

\* Time passes with no record sent.
Tick ==
  /\ clock < MaxClock
  /\ clock' = clock + 1
  /\ UNCHANGED <<viewerFrame, rxVars, queryVars, collect_data, telemetry_client,
                 clients_made, replaced, collecting, pending, cache>>

\* ---- the client's cache and its queries

\* retrieve, fetch and trim calls made; the ranges the graphs ask for.
MaxQueries == 2
QueryRanges == {<<2, 4>>, <<3, 3>>, <<0, MaxClock>>}

\* The record stamped ts: the timestamp and the value of the one field the
\* model carries.
RecordOf(ts) == <<ts, (ts * ts) % 3>>
Records(tss) == [k \in DOMAIN tss |-> RecordOf(tss[k])]

\* TelemetryGraphData.__init__, graph_component.py 42-44: the index of the
\* graph's field among the stream's fields.
column_index == 0

\* retrieve(stream, from_ts, to_ts, callback), section 4.6: the cached
\* records whose timestamp falls in [from_ts, to_ts].
Retrieve(c, from_ts, to_ts) ==
  SelectSeq(c, LAMBDA ts : from_ts <= ts /\ ts <= to_ts)

\* retrieve pulls from the server only what is not resident yet.
NeedsFetch(to_ts) == to_ts > resident_to

\* trim(stream, cutoff), section 8: no record earlier than cutoff remains.
Trim(c, cutoff) == SelectSeq(c, LAMBDA ts : ts >= cutoff)

\* The callback of fetch leaving out the first record it is given.
FetchCallback_SkipsFirst(data) ==
  [k \in 1 .. Len(data) - 1 |-> <<data[k + 1][1], data[k + 1][column_index + 2]>>]

\* graph_component.py 51-52: result.extend([[d[0], d[self.column_index + 1]]
\* for d in data]).
FetchCallback(data) ==
  [k \in 1 .. Len(data) |-> <<data[k][1], data[k][column_index + 2]>>]

\* What a query leaves alone.
queryFrame == <<viewerFrame, rxVars, collect_data, telemetry_client, clients_made, replaced,
                collecting, clock, pending>>

\* The bookkeeping of one retrieve call.
RetrieveCall(op, from_ts, to_ts, result) ==
  /\ query' = [n |-> query.n + 1, op |-> op, from |-> from_ts, to |-> to_ts,
               result |-> result, before |-> cache,
               fetched |-> NeedsFetch(to_ts)]
  /\ fetches' = IF NeedsFetch(to_ts) THEN fetches + 1 ELSE fetches
  /\ resident_to' = IF NeedsFetch(to_ts) THEN to_ts ELSE resident_to

\* TelemetryGraphData.fetch, graph_component.py 47-83 (self.collect is
\* True; the auto-scaling of lines 53-80 changes the graph's range only).
GraphFetch(from_ts, to_ts) ==
  /\ telemetry_client.id # 0
  /\ query.n < MaxQueries
  /\ RetrieveCall("fetch", from_ts, to_ts,
                  FetchCallback(Records(Retrieve(cache, from_ts, to_ts))))
  /\ UNCHANGED <<queryFrame, cache, csv>>

\* ------------------------------------------------------- the CSV export
\* stream.fields of "balance-data": the names the server declared.
StreamFieldNames == [k \in DOMAIN SchemaFields |-> SchemaFields[k].name]

\* The value of the k-th field in the record stamped ts, and the record as
\* retrieve hands it to a callback: the timestamp and then the fields.
\* RecordOf(ts) is its first two cells.
FieldValue(ts, k) == (ts * ts * k) % 3
FullRecord(ts) == <<ts>> \o [k \in DOMAIN SchemaFields |-> FieldValue(ts, k)]

\* x is an element of the list.
InList(x, list) == \E k \in DOMAIN list : list[k] = x

\* balancing_telemetry.py 469
fields_to_save ==
  <<"lw", "rw", "cy", "pi_p", "pi_i", "pi_d", "pi_pg", "pi_ig", "pi_dg", "pi_dt",
    "pi_o", "out">>

\* Line 478: [f.name for f in stream.fields if f.name in fields_to_save]
filtered_fields == SelectSeq(StreamFieldNames, LAMBDA name : InList(name, fields_to_save))

\* Lines 470 and 479: [0] extended by i + 1 for every i with
\* stream.fields[i].name in filtered_fields (indexes from 0, as in the code).
field_indexes ==
  <<0>> \o SelectSeq([k \in DOMAIN StreamFieldNames |-> k],
                     LAMBDA k : InList(StreamFieldNames[k], filtered_fields))

\* Lines 462 and 481: the header row ("all" for Save All, "selected" for
\* Save), as the list of its cells.
CsvHeader(kind) ==
  <<"timestamp">> \o (IF kind = "all" THEN StreamFieldNames ELSE filtered_fields)

\* Lines 459-460 and 473-474: the row write_data makes of a record.
CsvRow(kind, record) ==
  IF kind = "all" THEN record
  ELSE [j \in DOMAIN field_indexes |-> record[field_indexes[j] + 1]]

\* write_header (461-463, 477-482) with the file open: the header row, then
\* retrieve(stream, 0, time.time(), write_data) writing one row per record.
WriteHeader(kind, now) ==
  LET stamps == Retrieve(cache, 0, now)
  IN <<CsvHeader(kind)>> \o [k \in DOMAIN stamps |-> CsvRow(kind, FullRecord(stamps[k]))]

\* `with open("logs.csv", "wt") as file:` around
\* get_stream_definition("balance-data", write_header).  inline: the
\* library calls write_header before get_stream_definition returns;
\* otherwise it keeps the callback for later and the with block closes the
\* file, empty.
Export(kind, inline) ==
  IF inline
  THEN /\ RetrieveCall("save", 0, clock, Records(Retrieve(cache, 0, clock)))
       /\ csv' = [kind |-> kind, waiting |-> FALSE, ran |-> TRUE, raised |-> FALSE,
                  rows |-> WriteHeader(kind, clock)]
  ELSE /\ csv' = [kind |-> kind, waiting |-> TRUE, ran |-> FALSE, raised |-> FALSE,
                  rows |-> <<>>]
       /\ UNCHANGED <<query, fetches, resident_to>>

\* save_graph_all, balancing_telemetry.py 454-465.
SaveGraphAll(inline) ==
  /\ telemetry_client.id # 0
  /\ query.n < MaxQueries
  /\ Export("all", inline)
  /\ UNCHANGED <<queryFrame, cache>>

\* save_graph, balancing_telemetry.py 467-484.
SaveGraph(inline) ==
  /\ telemetry_client.id # 0
  /\ query.n < MaxQueries
  /\ Export("selected", inline)
  /\ UNCHANGED <<queryFrame, cache>>

\* The library resolves the stream definition and calls the callback it
\* kept: write_header runs file.write on the closed file, which raises
\* ValueError before anything is written or retrieved.
DefinitionCallback ==
  /\ csv.waiting
  /\ csv' = [csv EXCEPT !.waiting = FALSE, !.ran = TRUE, !.raised = TRUE]
  /\ UNCHANGED <<queryFrame, cache, query, fetches, resident_to>>

\* clear_graph trimming at time 0.
ClearGraph_CutoffZero ==
  /\ telemetry_client.id # 0
  /\ query.n < MaxQueries
  /\ cache' = Trim(cache, 0)
  /\ query' = [n |-> query.n + 1, op |-> "trim", from |-> clock, to |-> clock,
               result |-> <<>>, before |-> cache, fetched |-> FALSE]
  /\ UNCHANGED <<queryFrame, fetches, resident_to, csv>>

\* clear_graph, balancing_telemetry.py 448-452: trim(stream, time.time()).
ClearGraph ==
  /\ telemetry_client.id # 0
  /\ query.n < MaxQueries
  /\ cache' = Trim(cache, clock)
  /\ query' = [n |-> query.n + 1, op |-> "trim", from |-> clock, to |-> clock,
               result |-> <<>>, before |-> cache, fetched |-> FALSE]
  /\ UNCHANGED <<queryFrame, fetches, resident_to, csv>>

\* BalancingRoverTelemetry.__init__, lines 276-280: no client, the receive
\* thread started.
InitClient ==
  /\ collect_data = FALSE
  /\ telemetry_client = NoClient
  /\ clients_made = 0
  /\ replaced = <<>>
  /\ rx_pc = "if"
  /\ rx_had_exception = FALSE
  /\ rx_printed = FALSE
  /\ rx_failed = FALSE
  /\ collecting = "none"
  /\ clock = 0
  /\ pending = <<>>
  /\ cache = <<>>
  /\ ingested = FALSE
  /\ fetches = 0
  /\ resident_to = 0
  /\ query = [n |-> 0, op |-> "none", from |-> 0, to |-> 0, result |-> <<>>,
              before |-> <<>>, fetched |-> FALSE]
  /\ csv = [kind |-> "none", waiting |-> FALSE, ran |-> FALSE, raised |-> FALSE,
            rows |-> <<>>]

\* ------------------------------------------------- the telemetry server
\* SocketTelemetryServer is the telemetry library's: accepting a client and
\* sending what is logged are modelled from the specification's section
\* 4.5; the order in which the engine sets it up is Balance.init's.

\* Connections accepted, records logged.
MaxConnections == 2
MaxRecords == 3

SchemaMessage(fields) == [kind |-> "schema", fields |-> fields, ts |-> 0]
RecordMessage(ts) == [kind |-> "record", fields |-> <<>>, ts |-> ts]

\* What the set-up of the server and its traffic leave alone.
wireFrame == <<engineVars, clientVars, pidVars, gains_call, angle_call, motor_call,
               filter_call, bump_call, gyro_read, logged>>

\* Balance.init, line 310: setup_logger (233-269) creates the server and
\* the logger, adds the fields, and starts the server.
InitSetupLogger ==
  /\ init_pc = "setup_logger"
  /\ logger' = [fields |-> SchemaFields, inited |-> TRUE]
  /\ init_pc' = "accept_clients"
  /\ UNCHANGED <<wireFrame, accepting, connections, produced>>

\* setup_accept_clients_thread called before setup_logger.
InitAcceptClients_First ==
  /\ init_pc = "setup_logger"
  /\ ~accepting
  /\ accepting' = TRUE
  /\ UNCHANGED <<wireFrame, init_pc, logger, connections, produced>>

\* Balance.init, line 311: telemetry_server.setup_accept_clients_thread().
InitAcceptClients ==
  /\ init_pc = "accept_clients"
  /\ accepting' = TRUE
  /\ init_pc' = "deferred"
  /\ UNCHANGED <<wireFrame, logger, connections, produced>>

\* Balance.init, line 312: telemetry_server.setup_deferred().
InitDeferred ==
  /\ init_pc = "deferred"
  /\ init_pc' = "loop"
  /\ UNCHANGED <<wireFrame, logger, accepting, connections, produced>>

\* Balance.init, line 313: setup_loop starts the loop thread (300-305).
InitSetupLoop ==
  /\ init_pc = "loop"
  /\ init_pc' = "running"
  /\ UNCHANGED <<wireFrame, logger, accepting, connections, produced>>

\* The accept thread takes a new connection and sends it the schema, as the
\* logger has it.
AcceptClient ==
  /\ accepting
  /\ Len(connections) < MaxConnections
  /\ connections' = Append(connections,
                           [open |-> TRUE, wire |-> <<SchemaMessage(logger.fields)>>])
  /\ UNCHANGED <<wireFrame, init_pc, logger, accepting, produced>>

\* The server drops a client (it went away or cannot keep up).
DropClient(c) ==
  /\ c \in DOMAIN connections
  /\ connections[c].open
  /\ connections' = [connections EXCEPT ![c].open = FALSE]
  /\ UNCHANGED <<wireFrame, init_pc, logger, accepting, produced>>

\* log() sending the record to the connections in front of what was sent.
ServerLog_Prepends ==
  /\ init_pc = "running"
  /\ logger.inited
  /\ Len(produced) < MaxRecords
  /\ LET ts == Len(produced) + 1
     IN /\ produced' = Append(produced, ts)
        /\ connections' =
             [c \in DOMAIN connections |->
                IF connections[c].open
                THEN [connections[c] EXCEPT !.wire = <<RecordMessage(ts)>> \o @]
                ELSE connections[c]]
  /\ UNCHANGED <<wireFrame, init_pc, logger, accepting>>

\* balancing.py 192: the loop thread's self._logger.log(time.time(), ...);
\* the server sends the record to every connection that is open.
ServerLog ==
  /\ init_pc = "running"
  /\ logger.inited
  /\ Len(produced) < MaxRecords
  /\ LET ts == Len(produced) + 1
     IN /\ produced' = Append(produced, ts)
        /\ connections' =
             [c \in DOMAIN connections |->
                IF connections[c].open
                THEN [connections[c] EXCEPT !.wire = Append(@, RecordMessage(ts))]
                ELSE connections[c]]
  /\ UNCHANGED <<wireFrame, init_pc, logger, accepting>>

\* Balance.__init__: no server yet (line 75), init not called.
InitWire ==
  /\ init_pc = "setup_logger"
  /\ accepting = FALSE
  /\ connections = <<>>
  /\ produced = <<>>

\* ------------------------------------------------------------------- Init

\* Balance.__init__ (lines 47-78) and the locals of run_loop (lines 93-106),
\* with the loop thread started by Balance.init (line 313) and
\* BalancingService.init not yet at its line 72.
InitEngine ==
  /\ bump_found = None
  /\ bump_in_place = None
  /\ combine_factor_gyro \in CombineFactors
  /\ bump_delay = BumpDelay
  /\ bump_len = BumpLen
  /\ bump_gain = BumpGain
  /\ bump_step = BumpStep
  /\ pc = "read"
  /\ last_cy = NoCy
  /\ bump = 0
  /\ control = 0
  /\ last_state = STATE_STOPPED
  /\ had_exception = FALSE
  /\ sampled = FALSE
  /\ iter_logs = 0
  /\ cmds = <<>>
  /\ err_printed = FALSE
  /\ episode = "none"
  /\ first_active = None
  /\ run_side = 0
  /\ bump_dropped = FALSE
  /\ last_cmd = "none"
  /\ InitPid
  /\ InitDrivers
  /\ InitSettings
  /\ InitCalls
  /\ InitClient
  /\ InitWire

\* A threshold no per-sample change reaches: the compensator never arms.
NoBump == 2 * CyMax + 1

Init ==
  /\ InitEngine
  /\ cy = 0
  /\ state = STATE_STOPPED
  /\ pid_accepts \in BOOLEAN
  /\ bump_threshold = NoBump
  /\ svc = "init"

\* ------------------------------------------------------- the control loop

\* Lines 228-231: the exception handler of the loop body.
HandleException ==
  /\ err_printed' = ~had_exception
  /\ episode' = IF ~had_exception THEN "printed" ELSE episode
  /\ had_exception' = TRUE
  /\ pc' = "read"

\* Lines 110-111: gyro.read_deltas() or accel.read() raises (bus error).
SensorReadFails ==
  /\ pc = "read"
  /\ sampled' = FALSE
  /\ iter_logs' = 0
  /\ cmds' = <<>>
  /\ HandleException
  /\ UNCHANGED <<state, cy, last_state, config, loopLocals, bumpVars, cmdVars>>

\* Lines 110-137 with the PID of pid.py: the reads succeed, the filter
\* updates cy, and process(pid_time, 0.0, x) raises TypeError.  Nothing
\* after line 137 runs, so no timestamp is ever stored.
SamplePidRaises(g, a) ==
  /\ pc = "read"
  /\ ~pid_accepts
  /\ Abs(Combine(cy, g, a, combine_factor_gyro)) <= CyMax
  /\ cy' = Combine(cy, g, a, combine_factor_gyro)
  /\ sampled' = TRUE
  /\ iter_logs' = 0
  /\ cmds' = <<>>
  /\ HandleException
  /\ UNCHANGED <<state, last_state, config, loopLocals, bumpVars, cmdVars>>

\* The running bump's first activation: set when bump_in_place goes from
\* None to a timestamp, kept while it stays set, cleared with it.
FirstActive(in_place_before, in_place_after, t) ==
  IF in_place_after = None THEN None
  ELSE IF in_place_before = None THEN t
  ELSE first_active

\* run_side after a sample c that leaves the markers as found, in_place.
\* A marker is set after a sample only if the sample moved away from zero
\* (lines 147, 169-172).
RunSide(c, found, in_place) ==
  IF found = None /\ in_place = None THEN 0
  ELSE LET side == IF c > 0 THEN 1 ELSE -1
       IN IF run_side \in {0, side} THEN side ELSE 2

\* A timestamp after the origin has moved forward by dt.
Rebase(x, dt) == IF x = None THEN None ELSE x - dt

\* The same for first_active, which no code reads: ages beyond
\* bump_len + 2 * MaxDt are not told apart.
RebaseObserved(x, dt) ==
  IF x = None THEN None
  ELSE IF x - dt < Origin - (bump_len + 2 * MaxDt) THEN Origin - (bump_len + 2 * MaxDt)
  ELSE x - dt

\* Lines 110-205 with a controller that takes the call of line 137: one
\* gyro data point (the gyro is idle: gyro.py 214-216), filter, PID output
\* po, bump processing, the sin correction of line 177, one log call.
Sample(g, a, dt, po) ==
  /\ pc = "read"
  /\ pid_accepts
  /\ Abs(Combine(cy, g, a, combine_factor_gyro)) <= CyMax
  /\ LET c == Combine(cy, g, a, combine_factor_gyro)
         t == Origin + dt
         r == BumpProcess(c, last_cy, t,
                [found |-> bump_found, in_place |-> bump_in_place,
                 bump |-> bump, output |-> po])
     IN /\ cy' = c
        /\ last_cy' = c
        /\ bump_found' = Rebase(r.found, dt)
        /\ bump_in_place' = Rebase(r.in_place, dt)
        /\ first_active' = RebaseObserved(FirstActive(bump_in_place, r.in_place, t), dt)
        /\ run_side' = RunSide(c, r.found, r.in_place)
        /\ bump_dropped' = /\ (bump_found # None \/ bump_in_place # None)
                           /\ r.found = None /\ r.in_place = None
        /\ bump' = r.bump
        /\ control' = r.output - Sin(c)
  /\ sampled' = TRUE
  /\ iter_logs' = 1
  /\ cmds' = <<>>
  /\ err_printed' = FALSE
  /\ pc' = "L207"
  /\ UNCHANGED <<state, last_state, config, had_exception, episode, cmdVars>>

loopFrame == <<cy, config, loopLocals, bumpVars, sampled, iter_logs, cmdVars>>

\* Line 207: -4 < self.cy < 4
InReadyBand(c) == -ReadyBand < c /\ c < ReadyBand

\* OverMaxDeg that tests the forward tilt only.
OverMaxDeg_ForwardOnly(c) == c > max_deg

\* Line 211: self.cy < -self.max_deg or self.cy > self.max_deg
OverMaxDeg(c) == c < -max_deg \/ c > max_deg

\* Line 207: if self.state == WAITING_FOR_READY and -4 < self.cy < 4
L207 ==
  /\ pc = "L207"
  /\ pc' = IF state = STATE_WAITING_FOR_READY /\ InReadyBand(cy)
           THEN "L208" ELSE "L210"
  /\ err_printed' = FALSE
  /\ UNCHANGED <<state, last_state, had_exception, episode, cmds, loopFrame>>

\* Line 208: self.state = STATE_BALANCING
L208 ==
  /\ pc = "L208"
  /\ state' = STATE_BALANCING
  /\ pc' = "L220"
  /\ err_printed' = FALSE
  /\ UNCHANGED <<last_state, had_exception, episode, cmds, loopFrame>>

\* Lines 210-211: elif self.state == STATE_BALANCING, then the tilt test.
L210 ==
  /\ pc = "L210"
  /\ pc' = IF state # STATE_BALANCING THEN "L220"
           ELSE IF OverMaxDeg(cy) THEN "L212" ELSE "L217"
  /\ err_printed' = FALSE
  /\ UNCHANGED <<state, last_state, had_exception, episode, cmds, loopFrame>>

\* Only motors.left_speed(v).
BothMotors_LeftOnly(v) == Append(cmds, <<"left", v>>)

\* motors.left_speed(v); motors.right_speed(v)
BothMotors(v) == Append(Append(cmds, <<"left", v>>), <<"right", v>>)

\* Lines 212-214: back to WAITING_FOR_READY, both motors to zero.
L212 ==
  /\ pc = "L212"
  /\ state' = STATE_WAITING_FOR_READY
  /\ cmds' = BothMotors(0)
  /\ pc' = "L220"
  /\ err_printed' = FALSE
  /\ UNCHANGED <<last_state, had_exception, episode, loopFrame>>

\* Lines 217-218: both motors get control.
L217 ==
  /\ pc = "L217"
  /\ cmds' = BothMotors(control)
  /\ pc' = "L220"
  /\ err_printed' = FALSE
  /\ UNCHANGED <<state, last_state, had_exception, episode, loopFrame>>

\* Line 220: if last_state != self.state
L220 ==
  /\ pc = "L220"
  /\ pc' = IF last_state # state THEN "L221" ELSE "L227"
  /\ err_printed' = FALSE
  /\ UNCHANGED <<state, last_state, had_exception, episode, cmds, loopFrame>>

\* Line 221: last_state = self.state
L221 ==
  /\ pc = "L221"
  /\ last_state' = state
  /\ pc' = "L222"
  /\ err_printed' = FALSE
  /\ UNCHANGED <<state, had_exception, episode, cmds, loopFrame>>

\* Lines 222-225: if self.state != STATE_BALANCING: both motors to zero.
L222 ==
  /\ pc = "L222"
  /\ cmds' = IF state # STATE_BALANCING THEN BothMotors(0) ELSE cmds
  /\ pc' = "L227"
  /\ err_printed' = FALSE
  /\ UNCHANGED <<state, last_state, had_exception, episode, loopFrame>>

\* L227 that leaves had_exception as it is.
L227_KeepsFlag ==
  /\ pc = "L227"
  /\ episode' = IF episode = "printed" THEN "ok" ELSE episode
  /\ pc' = "read"
  /\ err_printed' = FALSE
  /\ UNCHANGED <<state, last_state, had_exception, cmds, loopFrame>>

\* Line 227: had_exception = False, and round again.
L227 ==
  /\ pc = "L227"
  /\ had_exception' = FALSE
  /\ episode' = IF episode = "printed" THEN "ok" ELSE episode
  /\ pc' = "read"
  /\ err_printed' = FALSE
  /\ UNCHANGED <<state, last_state, cmds, loopFrame>>

\* ----------------------------------------------------- the command thread

cmdFrame == <<cy, bump_found, bump_in_place, config,
              pc, last_cy, bump, control, last_state, had_exception,
              sampled, iter_logs, cmds, err_printed, episode, first_active,
              run_side, bump_dropped>>

\* ServiceInit that leaves the engine state alone.
ServiceInit_NoAutoStart ==
  /\ svc = "init"
  /\ svc' = "ready"
  /\ UNCHANGED <<state, last_cmd, cmdFrame>>

\* balance_main.py line 72, the last statement of BalancingService.init:
\* self.balance.state = Balance.STATE_WAITING_FOR_READY.  The loop thread
\* is already running (Balance.init, line 71); the command topics are
\* subscribed only afterwards (lines 154-176).
ServiceInit ==
  /\ svc = "init"
  /\ state' = STATE_WAITING_FOR_READY
  /\ svc' = "ready"
  /\ UNCHANGED <<last_cmd, cmdFrame>>

\* Balance.start, lines 295-297, called by start_callback.
Start ==
  /\ svc = "ready"
  /\ state' = STATE_WAITING_FOR_READY
  /\ last_cmd' = "start"
  /\ UNCHANGED <<svc, cmdFrame>>

\* Balance.stop, lines 299-301, called by stop_callback.
Stop ==
  /\ svc = "ready"
  /\ state' = STATE_STOPPED
  /\ last_cmd' = "stop"
  /\ UNCHANGED <<svc, cmdFrame>>

\* ---------------------------------------------------------- specification

\* Sensor inputs of one sample: a gyro increment with a level
\* accelerometer, or an accelerometer angle with a still gyro.
SensorInputs ==
  {<<g, 0>> : g \in -MaxGyroInc .. MaxGyroInc} \cup {<<0, a>> : a \in -CyMax .. CyMax}

LoopStep ==
  \/ L207 \/ L208 \/ L210 \/ L212 \/ L217 \/ L220 \/ L221 \/ L222 \/ L227

Next ==
  \/ SensorReadFails
  \/ \E in \in SensorInputs : SamplePidRaises(in[1], in[2])
  \/ \E in \in SensorInputs, dt \in 1 .. MaxDt, po \in PidOutputs :
       Sample(in[1], in[2], dt, po)
  \/ LoopStep
  \/ ServiceInit \/ Start \/ Stop

\* The service with its command thread; the bump compensator is configured
\* out of the way (its threshold is never reached).
Spec == Init /\ [][Next]_vars

\* The engine right after line 72 of BalancingService.init, before the
\* loop's first iteration, with a controller that takes the call of line
\* 137 and the default bump parameters; no sensor failures, no commands.
InitBump ==
  /\ InitEngine
  /\ cy = 0
  /\ state = STATE_WAITING_FOR_READY
  /\ pid_accepts = TRUE
  /\ bump_threshold = BumpThreshold
  /\ svc = "ready"

NextBump ==
  \/ \E in \in SensorInputs, dt \in 1 .. MaxDt, po \in PidOutputs :
       Sample(in[1], in[2], dt, po)
  \/ LoopStep

SpecBump == InitBump /\ [][NextBump]_vars

\* The drivers as the loop reads them (lines 110-111) and the calibrate
\* command, with the service running and some orientation accumulated.
InitDriversSpec ==
  /\ InitEngine
  /\ cy \in DriverCy
  /\ combine_factor_gyro = 100
  /\ state = STATE_WAITING_FOR_READY
  /\ pid_accepts = FALSE
  /\ bump_threshold = NoBump
  /\ svc = "ready"

NextDrivers ==
  \/ \E dt \in 1 .. DriverMaxDt, d \in GyroDeltas, raw \in AccelRaws :
       ReadSensors(dt, d, raw)
  \/ \E dt \in 1 .. DriverMaxDt, late \in BOOLEAN : GyroReadFails(dt, late)
  \/ \E what \in CalibratePayloads, dt \in 1 .. DriverMaxDt : Calibrate(what, dt)

SpecDrivers == InitDriversSpec /\ [][NextDrivers]_vars

\* The service after its start-up (balance_main.py 150-176) receiving
\* messages on the configuration topics.
NextConfig ==
  \E payload \in ConfigPayloads :
    \/ GyroFilterChanged(payload)
    \/ AccelFilterChanged(payload)
    \/ CombineFactorGyroChanged(payload)
    \/ \E name \in GainNames : PidInnerChanged(name, payload)
    \/ \E name \in GainNames : PidOuterChanged(name, payload)
    \/ \E name \in BumpNames : BumpChanged(name, payload)
    \/ \E topic \in ConfigTopics : PublishUnsubscribed(topic, payload)

SpecConfig == InitDriversSpec /\ [][NextConfig]_vars

\* A PID object on its own, called with set points and measurements that
\* put the error on either side of zero, inside the dead band, inside and
\* on the edge of the 0.1 band, and outside it.
SetPoints == {0, 1000}
Currents == {-2000, 0, 500, 999, 3000}

\* Line 65: time.time() since the previous call: it went backwards, stood
\* still or advanced.
PidDts == -1 .. PidMaxDt

NextPid ==
  \E sp \in SetPoints, cur \in Currents, dt \in PidDts : Process(sp, cur, dt)

SpecPid == Init /\ [][NextPid]_vars

\* A PID object given its gains from maps.
NextGains == \E gains_map \in GainsMaps : UpdateGainsFromMap(gains_map)

SpecGains == Init /\ [][NextGains]_vars

\* PID.angle_difference called on its own.
NextAngle == \E a1 \in Angles, a2 \in Angles : AngleDifference(a1, a2)

SpecAngle == Init /\ [][NextAngle]_vars

\* The two motor drivers given speeds.
NextMotors ==
  \E speed \in Speeds :
    \/ PIGPIOSpeed(speed)
    \/ RPiGPIOSpeed(speed)

SpecMotors == Init /\ [][NextMotors]_vars

\* The complementary filter of line 130 on its own.
NextFilter ==
  \E c \in -MaxFilterDeg .. MaxFilterDeg, g \in -MaxGyroInc .. MaxGyroInc,
     a \in -MaxFilterDeg .. MaxFilterDeg, w \in FilterWeights :
    FilterStep(c, g, a, w)

SpecFilter == Init /\ [][NextFilter]_vars

\* The logger set up by Balance.init and the log calls of the loop.
NextLogger ==
  \/ SetupLogger
  \/ \E c \in -MaxLogDeg .. MaxLogDeg, dt \in 1 .. MaxDt, output \in LogOutputs,
        b \in LogBumps :
       LogCall(c, dt, output, b)

SpecLogger == Init /\ [][NextLogger]_vars

\* The viewer: its buttons and the connection callback on the UI thread,
\* the receive thread, and the rover sending records.
NextClient ==
  \/ \E host \in Hosts : ConnectTelemetry(host)
  \/ StopCollecting
  \/ \E connected \in BOOLEAN, host \in Hosts : ContinueCollecting(connected, host)
  \/ RxSkip
  \/ RxCheck
  \/ \E k \in 0 .. MaxPending : RxProcess(k)
  \/ RxProcessRaises
  \/ ServerSends
  \/ Tick

InitClientSpec ==
  /\ InitEngine
  /\ cy = 0
  /\ combine_factor_gyro = 100
  /\ state = STATE_STOPPED
  /\ pid_accepts = FALSE
  /\ bump_threshold = NoBump
  /\ svc = "init"

SpecClient == InitClientSpec /\ [][NextClient]_vars

\* The viewer connected to one rover: the receive thread reading records
\* into the cache while the UI thread fetches, saves and clears.
NextCache ==
  \/ ConnectTelemetry("rover-1")
  \/ RxCheck
  \/ \E k \in 1 .. MaxPending : RxProcess(k)
  \/ ServerSends
  \/ Tick
  \/ \E r \in QueryRanges : GraphFetch(r[1], r[2])
  \/ SaveGraphAll(TRUE)
  \/ ClearGraph

SpecCache == InitClientSpec /\ [][NextCache]_vars

\* Balance.init setting up the telemetry server, clients connecting and the
\* loop logging.
NextWire ==
  \/ InitSetupLogger
  \/ InitAcceptClients
  \/ InitDeferred
  \/ InitSetupLoop
  \/ AcceptClient
  \/ \E c \in 1 .. MaxConnections : DropClient(c)
  \/ ServerLog

SpecWire == InitClientSpec /\ [][NextWire]_vars

\* The bump adjustment on its own over the operating range.
NextBumpCall == \E c \in BumpDegs, po \in PidOutputs : BumpCall(c, po)

SpecBumpCall == Init /\ [][NextBumpCall]_vars

\* One gyro read after another, over the bytes of the bus.
NextReadDeltas ==
  \E lo \in LowBytes, hi \in HighBytes, statuses \in StatusReadings,
     fifos \in FifoReadings :
    ReadDeltas(lo, hi, statuses, fifos)

SpecReadDeltas == Init /\ [][NextReadDeltas]_vars

\* The viewer connected to one rover, records arriving, and the two export
\* buttons.
NextCsv ==
  \/ ConnectTelemetry("rover-1")
  \/ RxCheck
  \/ \E k \in 1 .. MaxPending : RxProcess(k)
  \/ ServerSends
  \/ Tick
  \/ \E inline \in BOOLEAN : SaveGraphAll(inline)
  \/ \E inline \in BOOLEAN : SaveGraph(inline)
  \/ DefinitionCallback

SpecCsv == InitClientSpec /\ [][NextCsv]_vars

\* ----------------------------------------------------------------- claims

\* A step of the loop thread from the top of the loop.
LoopBodyStep == pc = "read" /\ UNCHANGED <<state, svc, last_cmd>>

\* A motor command with a speed other than zero.
NonZeroCommand(cs) == \E k \in 1 .. Len(cs) : cs[k][2] # 0

ZeroBoth == <<(<<"left", 0>>), (<<"right", 0>>)>>

\* C1: while WAITING_FOR_READY, the iteration that samples an orientation
\* with -4 < cy < 4 reaches the state test of line 207, which then leads to
\* line 208 and BALANCING; and the state goes from WAITING_FOR_READY to
\* BALANCING at no sample outside the band.
C1_TransitionAtFirstSampleInBand ==
  [][ /\ (LoopBodyStep /\ sampled' /\ state = STATE_WAITING_FOR_READY
            /\ -4 < cy' /\ cy' < 4) => pc' = "L207"
      /\ (pc = "L207" /\ pc' # pc /\ state = STATE_WAITING_FOR_READY
            /\ -4 < cy /\ cy < 4) => pc' = "L208"
      /\ (pc = "L208" /\ pc' # pc) => state' = STATE_BALANCING
      /\ (state = STATE_WAITING_FOR_READY /\ state' = STATE_BALANCING)
            => (-4 < cy /\ cy < 4) ]_vars

\* The part of C1 that lines 207-208 do decide, once they are reached.
C1_TransitionRule ==
  [][ /\ (pc = "L207" /\ pc' # pc /\ state = STATE_WAITING_FOR_READY
            /\ -4 < cy /\ cy < 4) => pc' = "L208"
      /\ (pc = "L208" /\ pc' # pc) => state' = STATE_BALANCING
      /\ (state = STATE_WAITING_FOR_READY /\ state' = STATE_BALANCING)
            => (-4 < cy /\ cy < 4) ]_vars

\* C2: when the state test of line 210 finds BALANCING with cy < -max_deg
\* or cy > max_deg, the loop goes to line 212, which sets WAITING_FOR_READY
\* and commands left and right to zero; no command went out earlier in the
\* iteration, none other than zero follows in it, and no iteration ends in
\* BALANCING with the tilt over the maximum.
C2_TiltCutoff ==
  /\ [](pc = "read" /\ state = STATE_BALANCING => ~(cy < -max_deg \/ cy > max_deg))
  /\ [][ /\ (pc = "L210" /\ pc' # pc /\ state = STATE_BALANCING
               /\ (cy < -max_deg \/ cy > max_deg)) => pc' = "L212"
         /\ (pc = "L212" /\ pc' # pc)
               => (state' = STATE_WAITING_FOR_READY /\ cmds = <<>> /\ cmds' = ZeroBoth)
         /\ (pc \in {"L220", "L221", "L222", "L227"} /\ ~NonZeroCommand(cmds))
               => ~NonZeroCommand(cmds') ]_vars

\* C2 witness: the cutoff has just run on a tilt over the maximum.
C2_Witness ==
  /\ pc = "L220" /\ state = STATE_WAITING_FOR_READY /\ last_state = STATE_BALANCING
  /\ (cy < -max_deg \/ cy > max_deg)
  /\ cmds = ZeroBoth

\* C3: once stop() was the latest command, the state is STOPPED.
C3_StoppedIsTerminal == last_cmd = "stop" => state = STATE_STOPPED

\* C4 as claimed: the state leaves STOPPED only by a start command.
C4_LeavesStoppedOnlyByStart ==
  [][ (state = STATE_STOPPED /\ state' # STATE_STOPPED)
        => (last_cmd' = "start" /\ pc' = pc /\ svc' = svc) ]_vars

\* C4 amended: the state is STOPPED from construction until the last
\* statement of BalancingService.init, and that statement sets
\* WAITING_FOR_READY with no start command received.
C4_StoppedUntilServiceInit ==
  /\ [](svc = "init" => state = STATE_STOPPED /\ last_cmd = "none")
  /\ [][ (svc = "init" /\ svc' # svc)
           => (state' = STATE_WAITING_FOR_READY /\ last_cmd' = "none") ]_vars

\* C4 witness: the engine has left STOPPED and no command was received.
C4_Witness ==
  svc = "ready" /\ last_cmd = "none" /\ state = STATE_WAITING_FOR_READY

\* C5: every iteration that got its sensor readings, in whichever state and
\* however its body ended, made exactly one log call.
C5_OneRecordPerIteration ==
  (sampled /\ (pc # "read" \/ had_exception)) => iter_logs = 1

\* C5 witness: with a controller that takes the call of line 137, an
\* iteration in STOPPED has made its one log call.
C5_Witness ==
  pid_accepts /\ sampled /\ pc = "L207" /\ state = STATE_STOPPED /\ iter_logs = 1

\* C6: an iteration that raises leaves the loop at its top, ready for the
\* next one; it prints the error when no error was printed since the last
\* iteration that completed (or ever), and prints nothing otherwise.
C6_LoggedOncePerEpisode ==
  [][ /\ (had_exception' /\ ~had_exception) => pc' = "read"
      /\ (LoopBodyStep /\ pc' = "read" /\ episode # "printed") => err_printed'
      /\ (LoopBodyStep /\ pc' = "read" /\ episode = "printed") => ~err_printed' ]_vars

\* C6 witness: an error was printed after iterations had completed.
C6_Witness ==
  err_printed /\ had_exception /\ state = STATE_BALANCING /\ pc = "read"

\* A call of PID.process.
CallStep == pid_calls' = pid_calls + 1

\* C7 as claimed: the first call returns 0, clears first and changes
\* nothing but last_error and last_time; a later call returns the output
\* it computed.
C7_FirstCallSeedsOnlyErrorAndTime ==
  [][ /\ (CallStep /\ pid.first)
           => /\ pid_ret' = <<0, 1>>
              /\ pid' = [pid EXCEPT !.first = FALSE,
                                    !.last_error = pid'.last_error,
                                    !.last_time = pid_clock']
      /\ (CallStep /\ ~pid.first)
           => (pid_ret' = PidOutput(pid') /\ pid'.last_output = pid_ret') ]_vars

\* C7 amended: the first call returns 0, clears first, stores set_point,
\* last_error and last_time, and leaves p, i, d, last_output (and the gains
\* and last_delta) as they were; a later call returns the output it
\* computed.
C7_FirstCallSeeds ==
  [][ /\ (CallStep /\ pid.first)
           => /\ pid_ret' = <<0, 1>>
              /\ pid' = [pid EXCEPT !.first = FALSE,
                                    !.set_point = pid'.set_point,
                                    !.last_error = pid'.last_error,
                                    !.last_time = pid_clock']
      /\ (CallStep /\ ~pid.first)
           => (pid_ret' = PidOutput(pid') /\ pid'.last_output = pid_ret') ]_vars

\* C7 witness: the first call was made with a set point and an error other
\* than zero.
C7_Witness ==
  pid_calls = 1 /\ ~pid.first /\ pid.set_point # 0 /\ pid.last_error # 0
  /\ pid.p = 0 /\ pid.last_time = pid_clock

\* C8: between two calls with the same positive error and an advancing
\* clock the integral term does not decrease; at a call whose error has the
\* sign opposite to the previous call's the integral term becomes 0.
C8_Integral ==
  [][ (CallStep /\ ~pid.first)
        => /\ (pid'.last_error = pid.last_error /\ pid.last_error > 0
                 /\ pid_clock' > pid_clock) => pid'.i >= pid.i
           /\ ((pid.last_error < 0 /\ 0 < pid'.last_error)
                 \/ (pid.last_error > 0 /\ 0 > pid'.last_error)) => pid'.i = 0 ]_vars

\* C8 witness: the integral has grown over two calls with one positive
\* error.
C8_Witness ==
  pid_calls = 3 /\ pid.last_error > IntegralBand /\ pid.p = pid.last_error
  /\ pid.i > pid.last_error

\* C9: while the orientation has moved away from zero on one side at every
\* sample since a bump was armed, an armed candidate is younger than bump_delay after every
\* sample (it was made active at the first sample at or after the delay),
\* and an active bump's first activation is younger than bump_len (it was
\* withdrawn at the first sample at or after bump_len).
C9_BumpTiming ==
  run_side \in {1, -1}
    => /\ (bump_found # None => Origin - bump_found < bump_delay)
       /\ (bump_in_place # None => Origin - first_active < bump_len)

\* The part of C9 that holds: the activation, and the withdrawal counted
\* from the latest activation.
C9_ActivationInTime ==
  /\ (bump_found # None => Origin - bump_found < bump_delay)
  /\ (bump_in_place # None => Origin - bump_in_place < bump_len)

\* C10: the armed marker and the active marker are never both set.
C10_NotArmedAndActive == ~(bump_found # None /\ bump_in_place # None)

\* C11: a sample whose orientation does not move away from zero (the change
\* since the previous sample does not have the sign of the orientation)
\* leaves no bump armed and none active, sets the bump contribution to 0
\* and adds nothing to the controller's output.
C11_ClearedWhenNotDiverging ==
  [][ (pc = "read" /\ pc' = "L207"
         /\ ~((cy' < 0 /\ cy' - cy < 0) \/ (cy' > 0 /\ cy' - cy > 0)))
        => /\ bump_found' = None /\ bump_in_place' = None /\ bump' = 0
           /\ control' + Sin(cy') \in PidOutputs ]_vars

\* C11 witness: a sample that moved towards zero has just cleared a bump.
C11_Witness ==
  /\ pc = "L207" /\ bump_dropped /\ cy > 0 /\ run_side = 0
  /\ bump_found = None /\ bump_in_place = None /\ bump = 0

\* A calibrate command.
CalibrateStep == calibs' = calibs + 1

\* C12: no calibrate command ends in an exception raised by a driver's
\* calibrate.
C12_CalibrationNeverRaises == ~calib.raised

\* C13: self.cy is written by the loop thread only.
C13_OrientationWrittenOnlyByLoop == cy_writer = "loop"

\* C14: "gyro" calibrates the gyroscope and leaves the accelerometer offset
\* and the orientation as they were; "accel" calibrates the accelerometer
\* and leaves the gyroscope offset and position and the orientation as they
\* were; "all" calibrates both and leaves the orientation at zero.
C14_CalibrateTargets ==
  [][ CalibrateStep
        => /\ (calib'.what = "gyro")
                => /\ ~calib'.raised
                   /\ gyro_cy' = GyroCalibrate(gyro_data_buffer', Origin).c
                   /\ accel_y_offset' = accel_y_offset /\ cy' = cy
           /\ (calib'.what = "accel")
                => /\ ~calib'.raised
                   /\ accel_y_offset' = AccelCalibrate(accel_data_buffer', Origin)
                   /\ gyro_cy' = gyro_cy /\ gyro_py' = gyro_py /\ cy' = cy
           /\ (calib'.what = "all")
                => /\ ~calib'.raised
                   /\ gyro_cy' = GyroCalibrate(gyro_data_buffer', Origin).c
                   /\ accel_y_offset' = AccelCalibrate(accel_data_buffer', Origin)
                   /\ cy' = 0 ]_vars

\* The part of C14 that holds: the same, for commands that find a gyro
\* sample inside the calibration time whenever they calibrate the gyro.
C14_CalibrateTargetsWithFreshSample ==
  [][ (CalibrateStep /\ ~calib'.raised)
        => /\ (calib'.what = "gyro")
                => /\ gyro_cy' = GyroCalibrate(gyro_data_buffer', Origin).c
                   /\ accel_y_offset' = accel_y_offset /\ cy' = cy
           /\ (calib'.what = "accel")
                => /\ accel_y_offset' = AccelCalibrate(accel_data_buffer', Origin)
                   /\ gyro_cy' = gyro_cy /\ gyro_py' = gyro_py /\ cy' = cy
           /\ (calib'.what = "all")
                => /\ gyro_cy' = GyroCalibrate(gyro_data_buffer', Origin).c
                   /\ accel_y_offset' = AccelCalibrate(accel_data_buffer', Origin)
                   /\ cy' = 0 ]_vars

\* C14 witness: "all" has calibrated both sensors and reset an orientation
\* that was not zero.
C14_Witness ==
  /\ calib = [what |-> "all", raised |-> FALSE] /\ drv_last = "calibrate"
  /\ gyro_cy # 0 /\ accel_y_offset # 0 /\ cy = 0 /\ cy_writer = "command"

\* A sample of a buffer is inside the window at the latest clock reading.
InWindow(e) == Origin - e.time <= buffer_len_in_time

\* C15: after every read of both sensors, neither buffer holds a sample
\* older than buffer_len_in_time.
C15_BufferWithinWindow ==
  drv_last = "read"
    => /\ \A i \in DOMAIN gyro_data_buffer : InWindow(gyro_data_buffer[i])
       /\ \A i \in DOMAIN accel_data_buffer : InWindow(accel_data_buffer[i])

\* The fields set over the configuration topics.
settings == <<gyro_filter, accel_filter, combine_factor_gyro, pid, pid_outer,
              bump_threshold, bump_delay, bump_gain, bump_step, bump_len>>

\* A message published on a configuration topic.
PublishStep == publishes' = publishes + 1

\* C16: a message whose payload float() does not accept leaves every
\* setting as it was and its handler lets no exception escape.
C16_MalformedValueIgnored ==
  [][ (PublishStep /\ Float(published'[2]).raised)
        => (settings' = settings /\ ~handler_raised') ]_vars

\* The part of C16 that holds: no setting changes, and the handlers of the
\* PID and bump topics let no exception escape.
C16_MalformedValueKeepsSetting ==
  [][ (PublishStep /\ Float(published'[2]).raised)
        => /\ settings' = settings
           /\ published'[1][1] \in {"pid_inner", "pid_outer", "bump"}
                => ~handler_raised' ]_vars

\* The value of the bump_* field a bump topic names, as the float written.
BumpField(name) ==
  IF name = "threshold" THEN bump_threshold
  ELSE IF name = "delay" THEN bump_delay
  ELSE IF name = "gain" THEN bump_gain
  ELSE IF name = "step" THEN bump_step
  ELSE bump_len

\* The float v in the unit of the field a bump topic names.
BumpUnit(name, v) ==
  IF name = "threshold" THEN Degrees(v)
  ELSE IF name \in {"delay", "len"} THEN Ticks(v)
  ELSE v

\* C18: after a number was published on the topic of a bump parameter the
\* engine's field of that parameter has that value.
C18_BumpParametersLive ==
  (published[1][1] = "bump" /\ ~Float(published[2]).raised)
    => BumpField(published[1][2]) = BumpUnit(published[1][2], Float(published[2]).v)

\* C18 witness: a number published on a subscribed bump topic is the
\* field's value.
C18_Witness ==
  /\ published = <<(<<"bump", "delay">>), "2">> /\ bump_delay = Ticks(2000)
  /\ bump_delay # BumpDelay

\* The gain of the PID that a name of the map sets.
GainOf(name) ==
  IF name = "p" THEN pid.kp
  ELSE IF name = "i" THEN pid.ki
  ELSE IF name = "d" THEN pid.kd
  ELSE pid.kg

\* 0.75, 0.2, 0.05 and 1.0 in twentieths.
DocumentedDefault(name) ==
  IF name = "p" THEN 15
  ELSE IF name = "i" THEN 4
  ELSE IF name = "d" THEN 1
  ELSE 20

\* C17: update_gains_from_map does not raise; a name that is missing from
\* the map or whose entry is not a number gets the default 0.75, 0.2, 0.05
\* or 1.0, and a name with a number gets that number.
C17_GainsFromMap ==
  gains_call.calls > 0 =>
    /\ ~gains_call.raised
    /\ \A name \in GainNames :
         LET m == gains_call.map
         IN IF name \in DOMAIN m /\ m[name] \in DOMAIN FloatOf
            THEN GainOf(name) * 1000 = FloatOf[m[name]] * GainUnit
            ELSE GainOf(name) = DocumentedDefault(name)

\* C17 witness: a second call, whose map lacks p, has a malformed i and a
\* valid d, put p and i back to their defaults and set d.
C17_Witness ==
  /\ gains_call.calls = 2
  /\ DOMAIN gains_call.map = {"i", "d"}
  /\ gains_call.map["i"] = "abc" /\ gains_call.map["d"] = "2"
  /\ pid.kp = 15 /\ pid.ki = 4 /\ pid.kd = 40 /\ pid.kg = 20

\* C19: for a1 and a2 in [-180, 180] the result of angle_difference is in
\* [-180, 180] and differs from a1 - a2 by a multiple of 360;
\* angle_difference(181, 0) is -179 and angle_difference(-181, 0) is 179.
C19_ShortestSignedDifference ==
  angle_call.called =>
    LET a1 == angle_call.a1
        a2 == angle_call.a2
        ret == angle_call.ret
    IN /\ (Abs(a1) <= 180 /\ Abs(a2) <= 180)
            => /\ ret >= -180 /\ ret <= 180
               /\ (ret - (a1 - a2)) % 360 = 0
       /\ (a1 = 181 /\ a2 = 0) => ret = -179
       /\ (a1 = -181 /\ a2 = 0) => ret = 179

\* C19 witness: a difference across the half turn came back wrapped.
C19_Witness ==
  /\ angle_call.called
  /\ angle_call.a1 = 179 /\ angle_call.a2 = -179 /\ angle_call.ret = -2

\* C19 witness of the spec's example.
C19_WitnessExample ==
  /\ angle_call.called
  /\ angle_call.a1 = 181 /\ angle_call.a2 = 0 /\ angle_call.ret = -179

\* C20: both drivers map a speed to a direction in {-1, 0, 1} and a duty
\* cycle in [0, 100]; a speed of magnitude below 0.01 gives duty cycle 0 and
\* one of magnitude above 1.0 gives 100.
C20_SanitisedSpeed ==
  motor_call.driver # "none" =>
    LET speed == motor_call.speed
        duty == motor_call.ret[1]
        direction == motor_call.ret[2]
    IN /\ direction \in {-1, 0, 1}
       /\ duty >= 0 /\ duty <= 100 * DutyUnit
       /\ Abs(speed) * 100 < SpeedUnit => duty = 0
       /\ Abs(speed) > SpeedUnit => duty = 100 * DutyUnit

\* C20 witness: a reverse speed beyond full speed was clamped to 100.
C20_Witness ==
  /\ motor_call.driver = "rpi_gpio"
  /\ motor_call.speed < -SpeedUnit
  /\ motor_call.ret = <<100 * DutyUnit, -1>>

\* C20 witness: a small forward speed was cut to zero with its direction.
C20_WitnessSmall ==
  /\ motor_call.driver = "pigpio"
  /\ motor_call.speed = 999
  /\ motor_call.ret = <<0, 1>>

\* C21: with a gyro weight of 1.0 the new orientation is the previous one
\* plus the gyro increment, whatever the accelerometer angle; with a gyro
\* weight of 0.0 it is the accelerometer angle, whatever the gyro increment
\* and the previous orientation.
C21_FilterLimits ==
  filter_call.called =>
    /\ filter_call.w = 100 => filter_call.ret = filter_call.c + filter_call.g
    /\ filter_call.w = 0 => filter_call.ret = filter_call.a

\* C21 witness: weight 1.0 with an accelerometer angle that differs from
\* the result.
C21_Witness ==
  /\ filter_call.called /\ filter_call.w = 100
  /\ filter_call.c = 1 /\ filter_call.g = 2 /\ filter_call.a = -2
  /\ filter_call.ret = 3

\* C21 witness: weight 0.0 with a previous orientation and a gyro increment
\* that differ from the result.
C21_WitnessAccel ==
  /\ filter_call.called /\ filter_call.w = 0
  /\ filter_call.c = 1 /\ filter_call.g = 2 /\ filter_call.a = -2
  /\ filter_call.ret = -2

\* The field of the stream each argument expression of the log call is the
\* value of.
FieldOfExpression ==
  [e \in {"gyro_dx", "gyro_dy", "gyro_dz", "gyro_x", "gyro_y", "gyro_z",
          "gyro_data_point.status", "gyro_data_point.fifo_status",
          "len(gyro_data_points)",
          "accel_dx", "accel_dy", "accel_dz", "accel_x", "accel_y", "accel_z",
          "accel_pitch", "accel_roll", "accel_yav",
          "self.cx", "self.cy", "self.cz",
          "self.pid_inner.p", "self.pid_inner.i", "self.pid_inner.d",
          "self.pid_inner.p * self.pid_inner.kp",
          "self.pid_inner.i * self.pid_inner.ki",
          "self.pid_inner.d * self.pid_inner.kd",
          "delta_time", "output", "control", "bump"} |->
     CASE e = "gyro_dx" -> "gdx" [] e = "gyro_dy" -> "gdy" [] e = "gyro_dz" -> "gdz"
       [] e = "gyro_x" -> "gx" [] e = "gyro_y" -> "gy" [] e = "gyro_z" -> "gz"
       [] e = "gyro_data_point.status" -> "status"
       [] e = "gyro_data_point.fifo_status" -> "fifo_status"
       [] e = "len(gyro_data_points)" -> "data_points"
       [] e = "accel_dx" -> "adx" [] e = "accel_dy" -> "ady" [] e = "accel_dz" -> "adz"
       [] e = "accel_x" -> "ax" [] e = "accel_y" -> "ay" [] e = "accel_z" -> "az"
       [] e = "accel_pitch" -> "apitch" [] e = "accel_roll" -> "aroll"
       [] e = "accel_yav" -> "ayaw"
       [] e = "self.cx" -> "cx" [] e = "self.cy" -> "cy" [] e = "self.cz" -> "cz"
       [] e = "self.pid_inner.p" -> "pi_p" [] e = "self.pid_inner.i" -> "pi_i"
       [] e = "self.pid_inner.d" -> "pi_d"
       [] e = "self.pid_inner.p * self.pid_inner.kp" -> "pi_pg"
       [] e = "self.pid_inner.i * self.pid_inner.ki" -> "pi_ig"
       [] e = "self.pid_inner.d * self.pid_inner.kd" -> "pi_dg"
       [] e = "delta_time" -> "pi_dt" [] e = "output" -> "pi_o"
       [] e = "control" -> "out" [] e = "bump" -> "bump"]

\* C22: a log call of the loop passes, after the timestamp, one value for
\* each of the 31 fields added in setup_logger, in the order they were added.
C22_LogMatchesSchema ==
  logged.called =>
    /\ Len(logger.fields) = 31
    /\ Len(logged.args) = Len(logger.fields)
    /\ \A k \in 1 .. Len(logged.args) :
         k <= Len(logger.fields)
           => FieldOfExpression[logged.args[k][1]] = logger.fields[k].name

\* C22 witness: a log call made after setup_logger, carrying an orientation
\* and a bump at their places.
C22_Witness ==
  /\ logged.called /\ logger.inited
  /\ logged.args[20] = <<"self.cy", 2>>
  /\ logged.args[31] = <<"bump", BumpStep>>

\* C23: the receive loop goes on after an exception of
\* process_incoming_data: it is back at the top of the loop, and the error
\* is printed when the pass before did not fail and not printed otherwise.
C23_ReceiveLoopSurvives ==
  [][ (rx_pc = "call" /\ rx_pc' # "call")
        => /\ rx_pc' = "if"
           /\ rx_failed' => (rx_printed' = ~rx_had_exception /\ rx_had_exception')
           /\ ~rx_failed' => (~rx_printed' /\ ~rx_had_exception') ]_vars

\* C23: the receive thread is always at a statement of its loop.
C23_ReceiveLoopNeverEnds == rx_pc \in {"if", "call"}

\* C23 witness: a second failure in a row: caught, not printed again.
C23_Witness == rx_failed /\ rx_had_exception /\ ~rx_printed /\ rx_pc = "if"

\* C23 witness: the loop read records again after a failure.
C23_WitnessRetry == ingested /\ ~rx_had_exception /\ clients_made = 1 /\ Len(cache) = 2

\* C24: the stop_collecting step leaves the client object, its connection
\* and what waits on it as they are; from then until continue_collecting no
\* record is read into the cache and the client is not replaced; and
\* continue_collecting sets the same client reading again.
C24_StopSuspendsIngestion ==
  [][ /\ (collecting # "stopped" /\ collecting' = "stopped")
           => /\ telemetry_client'.id = telemetry_client.id
              /\ telemetry_client'.host = telemetry_client.host
              /\ pending' = pending /\ cache' = cache
      /\ (collecting = "stopped" /\ collecting' = "stopped")
           => /\ telemetry_client' = telemetry_client
              /\ cache' = cache
      /\ (collecting = "stopped" /\ collecting' = "continued")
           => /\ telemetry_client'.id = telemetry_client.id
              /\ telemetry_client'.running /\ collect_data'
              /\ pending' = pending /\ cache' = cache ]_vars

\* C24 witness: after a stop and a continue the one client made read a
\* record that was sent on its connection.
C24_Witness ==
  /\ collecting = "continued" /\ ingested
  /\ clients_made = 1 /\ telemetry_client.id = 1
  /\ Len(cache) > 0

\* While collection is stopped the receive thread can still be at its call
\* of process_incoming_data, having read _collect_data before the stop.
C24_NoCallWhileStopped == ~(collecting = "stopped" /\ rx_pc = "call")

\* A retrieve (fetch or save), or a trim, is made in this step.
QueryStep(ops) == query'.n = query.n + 1 /\ query'.op \in ops

\* The timestamps of a sequence of records.
Stamps(records) == [k \in DOMAIN records |-> records[k][1]]

RECURSIVE Among(_, _, _)
\* The elements of sequence c, from index k on, that are in the set keep.
Among(c, k, keep) ==
  IF k > Len(c) THEN <<>>
  ELSE IF c[k] \in keep THEN <<c[k]>> \o Among(c, k + 1, keep)
  ELSE Among(c, k + 1, keep)

\* C25: a retrieve delivers the cached records with a timestamp in
\* [from_ts, to_ts], all of them and no other, each with its value; of
\* timestamps 1..5 the range [2, 4] gives 2, 3, 4; and a retrieve whose
\* range was retrieved before issues no network fetch.
C25_RetrieveExactRange ==
  [][ QueryStep({"fetch", "save"})
        => /\ Stamps(query'.result) = Among(cache, 1, query'.from .. query'.to)
           /\ \A k \in DOMAIN query'.result :
                query'.result[k] = RecordOf(query'.result[k][1])
           /\ (cache = <<1, 2, 3, 4, 5>> /\ query'.from = 2 /\ query'.to = 4)
                => Stamps(query'.result) = <<2, 3, 4>>
           /\ (query.op \in {"fetch", "save"} /\ query'.from = query.from
                 /\ query'.to = query.to)
                => fetches' = fetches ]_vars

\* C25 witness: the example: 1..5 ingested, [2, 4] retrieved twice, one
\* fetch in all.
C25_Witness ==
  /\ query.n = 2 /\ query.op = "fetch"
  /\ query.before = <<1, 2, 3, 4, 5>>
  /\ query.from = 2 /\ query.to = 4
  /\ Stamps(query.result) = <<2, 3, 4>>
  /\ fetches = 1

\* C26: after the trim of the Clear action no cached record has a
\* timestamp earlier than the cutoff, and the cutoff is the time of the
\* click.
C26_TrimLeavesNothingOlder ==
  [][ QueryStep({"trim"})
        => /\ query'.to = clock
           /\ \A k \in DOMAIN cache' : cache'[k] >= query'.to
           /\ cache' = Among(cache, 1, {ts \in 0 .. MaxClock : ts >= clock}) ]_vars

\* C26 witness: a Clear that removed older records and kept one stamped
\* with the time of the click.
C26_Witness ==
  /\ query.op = "trim"
  /\ Len(query.before) > Len(cache)
  /\ Len(cache) > 0

\* Records sent before a Clear and read after it are older than the click.
C26_NothingOlderThanLastClear ==
  query.op = "trim" => \A k \in DOMAIN cache : cache[k] >= query.to

RecordStamps(wire) ==
  LET recs == SelectSeq(wire, LAMBDA m : m.kind = "record")
  IN [k \in DOMAIN recs |-> recs[k].ts]

\* Sequence a is a run of consecutive elements of sequence b.
IsRunOf(a, b) ==
  \E from \in 1 .. Len(b) + 1 :
    /\ from + Len(a) - 1 <= Len(b)
    /\ \A k \in DOMAIN a : a[k] = b[from + k - 1]

\* C28: on every connection the first message is the schema of the 31
\* fields, no other message is a schema, and the records that follow are
\* records the loop logged, in the order it logged them.
C28_SchemaOnceThenRecordsInOrder ==
  \A c \in DOMAIN connections :
    LET wire == connections[c].wire
    IN /\ Len(wire) >= 1
       /\ wire[1] = SchemaMessage(SchemaFields)
       /\ \A k \in 2 .. Len(wire) : wire[k].kind = "record"
       /\ IsRunOf(RecordStamps(wire), produced)

\* C28 witness: two connections accepted at different times, each with the
\* schema and then the records logged since.
C28_Witness ==
  /\ Len(connections) = 2
  /\ Len(connections[1].wire) = 3
  /\ Len(connections[2].wire) = 2
  /\ RecordStamps(connections[1].wire) = <<2, 3>>
  /\ RecordStamps(connections[2].wire) = <<3>>

\* The error's sign is opposite to last_error's.
OppositeSigns(last_error, error) ==
  (last_error < 0 /\ error > 0) \/ (last_error > 0 /\ error < 0)

\* C29: at every call of process() after the first, with error the error
\* of the call and delta_time the time since the previous call: if error's
\* sign is opposite to last_error's, or |error| <= 0.1, then i becomes 0;
\* otherwise i grows by exactly error * delta_time * i_gain_scale.
C29_IntegralPolicy ==
  [][ (CallStep /\ ~pid.first)
        => LET error == pid'.p
               delta_time == pid_clock' - pid.last_time
           IN IF OppositeSigns(pid.last_error, error) \/ Abs(error) <= IntegralBand
              THEN pid'.i = 0
              ELSE pid'.i = pid.i + error * delta_time * i_gain_scale ]_vars

\* C29 witness: two calls after the first have each added the error -0.3
\* times one tick to the integral.
C29_Witness ==
  /\ pid_calls = 3
  /\ pid.last_error = -3000
  /\ pid.last_delta = 1
  /\ pid.i = -6000

\* C29 witness: a call whose error is 0.1 exactly has reset the integral.
C29_WitnessEdge ==
  /\ pid_calls = 3
  /\ pid.last_error = IntegralBand
  /\ pid.last_delta = 1
  /\ pid.i = 0

\* C30: in every call of process(), an error (the difference of set point
\* and measurement) of magnitude at or below dead_band counts as 0 and a
\* larger one counts unchanged: for last_error in every call and, in every
\* call after the first, for the proportional term, the integral policy and
\* the derivative.
C30_DeadBand ==
  [][ \A sp \in SetPoints, cur \in Currents, dt \in PidDts :
        Process(sp, cur, dt)
          => LET raw == Difference(sp, cur)
                 error == IF Abs(raw) <= dead_band THEN 0 ELSE raw
                 delta_time == pid_clock' - pid.last_time
             IN /\ pid'.last_error = error
                /\ ~pid.first
                     => /\ pid'.p = error
                        /\ pid'.i = (IF OppositeSigns(pid.last_error, error)
                                        \/ Abs(error) <= IntegralBand
                                     THEN 0
                                     ELSE pid.i + error * delta_time * i_gain_scale)
                        /\ delta_time > 0
                             => pid'.d = <<error - pid.last_error,
                                           delta_time * d_gain_scale>> ]_vars

\* C30 witness: a call after the first whose error was inside the dead band
\* (set point 0.1, measured 0.0999) left p and last_error at 0 and a
\* derivative that falls from the previous error to 0.
C30_Witness ==
  /\ pid_calls = 2
  /\ pid.set_point = 1000
  /\ pid.p = 0
  /\ pid.last_error = 0
  /\ pid.i = 0
  /\ pid.d[1] = -3000

\* C31: at every call of process() after the first, with delta_time the
\* time since the previous call: when delta_time <= 0 the derivative term
\* is the one before the call, and when delta_time > 0 it is
\* (error - last_error) / (delta_time * d_gain_scale); the divisor of a
\* derivative term is never 0.
C31_DerivativeSkipped ==
  [][ (CallStep /\ ~pid.first)
        => LET error == pid'.p
               delta_time == pid_clock' - pid.last_time
           IN /\ delta_time <= 0 => pid'.d = pid.d
              /\ delta_time > 0
                   => pid'.d = <<error - pid.last_error, delta_time * d_gain_scale>>
              /\ pid'.d[2] # 0 ]_vars

\* C31 witness: a call with the clock gone backwards kept the derivative
\* that the call before it had computed from a change of the error.
C31_Witness ==
  /\ pid_calls = 3
  /\ pid.last_delta = -1
  /\ pid.d[1] # 0
  /\ pid.d[2] = d_gain_scale

\* C31 witness: a call with the clock standing still kept the derivative.
C31_WitnessStill ==
  /\ pid_calls = 3
  /\ pid.last_delta = 0
  /\ pid.d[1] # 0

\* What the adjustment took from (orientation positive) or added to
\* (orientation negative) the PID output.
BumpAmount ==
  IF bump_call.c > 0 THEN bump_call.before - bump_call.after
  ELSE bump_call.after - bump_call.before

\* C32: while a bump is active and the orientation is diverging, the output
\* is decreased by a positive amount at a positive orientation and
\* increased by a positive amount, the one of the mirrored positive
\* orientation, at a negative orientation.
C32_BumpCorrective ==
  (bump_call.called /\ bump_call.active)
    => /\ BumpAmount > 0
       /\ BumpAmount = BumpValue(Abs(bump_call.c))

\* C32, positive orientations only: the output is decreased by
\* bump_step + cy * bump_gain / 45, a positive amount.
C32_CorrectiveWhenPositive ==
  (bump_call.called /\ bump_call.active /\ bump_call.c > 0)
    => /\ BumpAmount > 0
       /\ BumpAmount = BumpValue(bump_call.c)

\* C32 witness: at 20 degrees the output 0.5 was decreased to -0.144.
C32_Witness ==
  /\ bump_call.called /\ bump_call.active
  /\ bump_call.c = 20 /\ bump_call.before = 500
  /\ bump_call.after = 500 - (BumpStep + 444)

\* C32: at -20 degrees the adjustment lowered the output instead of
\* raising it.
C32_WitnessWrongWay ==
  /\ bump_call.called /\ bump_call.active
  /\ bump_call.c = -20
  /\ bump_call.after < bump_call.before

\* C33: the motor commands of an iteration come in pairs, the left motor
\* and then the right motor with the same value.
C33_BothMotorsSameValue ==
  /\ Len(cmds) % 2 = 0
  /\ \A k \in 1 .. Len(cmds) :
       k % 2 = 1 => /\ cmds[k][1] = "left"
                    /\ cmds[k + 1][1] = "right"
                    /\ cmds[k + 1][2] = cmds[k][2]

\* C33 witness: a balancing iteration has commanded both motors with
\* control, not zero.
C33_Witness ==
  /\ state = STATE_BALANCING
  /\ Len(cmds) = 2
  /\ cmds[1] = <<"left", control>> /\ cmds[2] = <<"right", control>>
  /\ control # 0

\* C33 witness: an iteration has commanded both motors to zero twice, at
\* the tilt cutoff and at the state change.
C33_WitnessCutoff ==
  /\ Len(cmds) = 4
  /\ \A k \in 1 .. 4 : cmds[k][2] = 0

\* The values of the 1-byte and of the 2-byte unsigned field type.
ByteRange == 0 .. 255
WordRange == 0 .. 65535

\* C34: what the loop logs of a gyro read fits the type of its field: the
\* delta (word fields gdx, gdy, gdz) and the status (word) lie in 0..65535,
\* the FIFO status and the number of data points (bytes) in 0..255.
C34_LoggedValuesFitTypes ==
  gyro_read.called
    => /\ gyro_read.dx \in WordRange
       /\ gyro_read.status \in WordRange
       /\ gyro_read.fifo_status \in ByteRange
       /\ gyro_read.data_points \in ByteRange

\* C34 without the deltas: status, FIFO status and number of data points
\* fit their fields.
C34_StatusFieldsFit ==
  gyro_read.called
    => /\ gyro_read.status \in WordRange
       /\ gyro_read.fifo_status \in ByteRange
       /\ gyro_read.data_points \in ByteRange

\* C34 witness: the bytes 0xff 0xff were read as the delta -1, with a
\* status of 0xff.
C34_Witness ==
  /\ gyro_read.called
  /\ gyro_read.dx = -1
  /\ gyro_read.status = 255 + 1024
  /\ gyro_read.fifo_status = 255

\* The bus reads of a read_deltas call of an idle gyro: STATUS_REG,
\* FIFO_SRC_REG, one block of six bytes.
IdleBusReads == 3

\* C35: every call of read_deltas made by the control loop returns, after
\* a bounded number of bus reads (three).
C35_ReadDeltasReturns ==
  gyro_read.called => (gyro_read.returned /\ gyro_read.bus_reads <= IdleBusReads)

\* C35 witness: a call returned one data point after three bus reads
\* although the status register went on showing data not ready and the
\* FIFO not empty.
C35_Witness ==
  /\ gyro_read.called /\ gyro_read.returned
  /\ gyro_read.bus_reads = IdleBusReads
  /\ gyro_read.data_points = 1
  /\ gyro_read.status = 1024
  /\ gyro_read.fifo_status = 255

\* C36: when the viewer learns of a connection to a host other than the
\* current client's, the current client is torn down (stopped) and a new
\* client for the new host takes its place; when the host is the same the
\* client is kept; either way _collect_data is true afterwards.
C36_ReconnectTearsDownAndRebuilds ==
  [][ \A host \in Hosts :
        (ConnectTelemetry(host) /\ telemetry_client.id # 0)
          => /\ collect_data'
             /\ telemetry_client.host = host => telemetry_client' = telemetry_client
             /\ telemetry_client.host # host
                  => /\ telemetry_client'.host = host
                     /\ telemetry_client'.id # telemetry_client.id
                     /\ telemetry_client'.running
                     /\ replaced' = Append(replaced, telemetry_client)
                     /\ \A k \in DOMAIN replaced' : ~replaced'[k].running ]_vars

\* C36 without the tearing down: a new client is built for another host,
\* the client of the same host is kept, _collect_data is true afterwards.
C36_ReconnectRebuilds ==
  [][ \A host \in Hosts :
        (ConnectTelemetry(host) /\ telemetry_client.id # 0)
          => /\ collect_data'
             /\ telemetry_client.host = host => telemetry_client' = telemetry_client
             /\ telemetry_client.host # host
                  => /\ telemetry_client'.host = host
                     /\ telemetry_client'.id # telemetry_client.id
                     /\ telemetry_client'.running
                     /\ replaced' = Append(replaced, telemetry_client) ]_vars

\* C36 witness: the client of rover-1 was replaced by one of rover-2 while
\* it was started, and nothing stopped it.
C36_Witness ==
  /\ Len(replaced) = 1
  /\ replaced[1].host = "rover-1" /\ replaced[1].running
  /\ telemetry_client.host = "rover-2" /\ telemetry_client.running
  /\ collect_data

\* C40: _collect_data is true exactly when the current telemetry client is
\* started.
C40_FlagIffClientStarted == collect_data <=> telemetry_client.running

\* C40 witness: after Stop Collecting, a connected event for the same host
\* has set _collect_data with the client still stopped.
C40_Witness ==
  /\ collecting = "connected"
  /\ collect_data
  /\ telemetry_client.id # 0
  /\ ~telemetry_client.running

\* The place of a field among the stream's fields.
FieldPosition(name) == CHOOSE k \in DOMAIN StreamFieldNames : StreamFieldNames[k] = name

\* The rows are a header of "timestamp" and the export's fields, and then
\* rows of a timestamp followed by the values of the header's fields, in
\* the header's order.
RowsMatchHeader(kind, rows) ==
  /\ Len(rows) >= 1
  /\ rows[1][1] = "timestamp"
  /\ kind = "all" => Tail(rows[1]) = StreamFieldNames
  /\ kind = "selected"
       => /\ \A j \in 2 .. Len(rows[1]) :
               InList(rows[1][j], fields_to_save) /\ InList(rows[1][j], StreamFieldNames)
          /\ \A k \in DOMAIN fields_to_save :
               InList(fields_to_save[k], StreamFieldNames)
                 => InList(fields_to_save[k], Tail(rows[1]))
  /\ \A k \in 2 .. Len(rows) :
       /\ Len(rows[k]) = Len(rows[1])
       /\ \A j \in 2 .. Len(rows[1]) :
            rows[k][j] = FieldValue(rows[k][1], FieldPosition(rows[1][j]))

\* C37: when write_header has run, it wrote the header while the file was
\* open, before any data row, and every data row is the timestamp and the
\* values of the header's fields in the header's order.
C37_CsvExport ==
  csv.ran => (~csv.raised /\ RowsMatchHeader(csv.kind, csv.rows))

\* C37 when write_header is called before get_stream_definition returns.
C37_CsvExportInline ==
  (csv.ran /\ ~csv.raised) => RowsMatchHeader(csv.kind, csv.rows)

\* C37 witness: Save has written the header of the ten selected fields the
\* stream has and two data rows.
C37_Witness ==
  /\ csv.ran /\ ~csv.raised /\ csv.kind = "selected"
  /\ Len(csv.rows) = 3
  /\ Len(csv.rows[1]) = 11
  /\ csv.rows[1][2] = "cy"

\* C37: write_header was called after the with block had closed the file.
C37_WitnessClosedFile == csv.ran /\ csv.raised /\ csv.rows = <<>>

\* stop() was the latest command and the loop has not acted on it: the
\* latest transition block (lines 220-225) ran in BALANCING, so the motors
\* hold whatever line 217-218 gave them last.
StopUnserved ==
  last_cmd = "stop" /\ state = STATE_STOPPED /\ last_state = STATE_BALANCING

\* The latest commands of the iteration set left and right to zero.
EndsZeroed(cs) == Len(cs) >= 2 /\ SubSeq(cs, Len(cs) - 1, Len(cs)) = ZeroBoth

\* The step issues a motor command with a speed other than zero.
CommandsNonZero ==
  /\ Len(cmds') > Len(cmds)
  /\ NonZeroCommand(SubSeq(cmds', Len(cmds) + 1, Len(cmds')))

\* C38: a speed other than zero is commanded only by line 217-218, which the
\* state test of line 210 reaches only when it finds BALANCING; the
\* iteration that starts with a stop() not yet acted on commands both motors
\* to zero before it ends, whether its sensor reads succeed or not; and no
\* speed other than zero is commanded while stop() is the latest command.
C38_MotorsStopAfterStop ==
  [][ /\ CommandsNonZero => (pc = "L217" /\ cmds' = BothMotors(control))
      /\ (pc = "L210" /\ pc' = "L217") => state = STATE_BALANCING
      /\ (StopUnserved /\ LoopBodyStep /\ pc' = "read") => EndsZeroed(cmds')
      /\ (pc = "L222" /\ pc' # pc /\ state = STATE_STOPPED) => EndsZeroed(cmds')
      /\ CommandsNonZero => last_cmd # "stop" ]_vars

\* The part of C38 that holds: non-zero speeds come from line 217-218 only,
\* after a test that found BALANCING, and the transition block of an
\* iteration that gets as far as line 222 in STOPPED zeroes both motors.
C38_NonZeroOnlyWhenBalancing ==
  [][ /\ CommandsNonZero => (pc = "L217" /\ cmds' = BothMotors(control))
      /\ (pc = "L210" /\ pc' = "L217") => state = STATE_BALANCING
      /\ (pc = "L222" /\ pc' # pc /\ state = STATE_STOPPED) => EndsZeroed(cmds') ]_vars

\* C38 witness: stop() is unserved and the iteration after it has ended in
\* the exception handler on a failed sensor read, with no motor command.
C38_Witness ==
  /\ StopUnserved /\ pc = "read"
  /\ ~sampled /\ had_exception /\ err_printed /\ cmds = <<>>

\* C38: the transition block has zeroed both motors for a stop().
C38_WitnessServed ==
  /\ pc = "L227" /\ last_cmd = "stop" /\ state = STATE_STOPPED
  /\ last_state = STATE_STOPPED /\ cmds = ZeroBoth

\* C39: an iteration whose sensor reads succeed raises nothing: the call
\* of line 137 returns, the log call of lines 192-205 is made, and the
\* iteration goes on to the state test of line 207.
C39_IterationRaisesNothing ==
  [][ (LoopBodyStep /\ sampled')
        => (pc' = "L207" /\ iter_logs' = 1 /\ ~err_printed' /\ had_exception' = had_exception) ]_vars

\* C39 witness: with the PID of pid.py the service's first iteration got
\* its readings, raised at line 137 and printed the error; nothing was
\* logged and no motor was commanded.
C39_Witness ==
  /\ ~pid_accepts /\ svc = "ready" /\ state = STATE_WAITING_FOR_READY
  /\ pc = "read" /\ sampled /\ had_exception /\ err_printed
  /\ iter_logs = 0 /\ cmds = <<>> /\ last_state = STATE_STOPPED

====
